---- MODULE Spec2Model ----
(***************************************************************************)
(* Session persistence store and recovery engine of claude-code-sandbox.   *)
(*                                                                         *)
(*   src/src/session-store.ts   SessionStore (load, save, addSession, ...) *)
(*   src/src/recover.ts         recoverSession                             *)
(*   src/src/cli.ts             the recover command                        *)
(***************************************************************************)
EXTENDS Integers, Sequences, FiniteSets, TLC

VARIABLES
    files,      \* the two paths of the store: "store" (storePath) and "tmp" (storePath + ".tmp")
    lastOp,     \* the last public store operation: its name, arguments and outcome
    replaced,   \* the record A, when the last two operations were addSession(A), addSession(A') on one containerId
    added,      \* the records added, in order, since the store was empty, while only fresh containerIds were added
    loaded,     \* what the last load() call gave its caller
    pc,         \* per writer process: the step of the store write it is in
    pending,    \* per writer process: the list it handed to save()
    fd,         \* per writer process: where the file its open descriptor refers to is linked now
    off,        \* per writer process: the offset of that descriptor, in tokens
    before,     \* per writer process: the content of the real path when its write began
    writes,     \* the store writes begun by concurrent writers
    containers, \* the container runtime: per container identity, running, stopped or gone
    shadows,    \* the shadow repos: per path, whether the directory exists and the state of the repo in it
    copies,     \* the shadow repo paths whose tree was copied to a destination
    rec,        \* the last run of the recovery engine: what it was given, did and ended with
    proc,       \* the sandbox process: starting, attached to the container's terminal, or exited with a code
    isTTY,      \* process.stdin.isTTY
    sandbox,    \* the ClaudeSandbox object: config.useWebUI, this.webServer, and what run has started
    rawMode,    \* whether local input is in raw mode
    tasks,      \* per invocation of an asynchronous handler: the await it is suspended at
    calls,      \* how many times each collaborator call was made
    config,     \* the options of the start command that branch resolution reads, and what it finds outside
    containerConfig \* what branch resolution handed to container start-up

storeHist == <<lastOp, replaced, added>>

writeVars == <<pc, pending, fd, off, before, writes>>

recVars == <<containers, shadows, copies, rec>>

orchVars == <<proc, isTTY, sandbox, rawMode, tasks, calls>>

branchVars == <<config, containerConfig>>

vars ==
    <<files, lastOp, replaced, added, loaded, pc, pending, fd, off, before, writes,
      containers, shadows, copies, rec, proc, isTTY, sandbox, rawMode, tasks, calls,
      config, containerConfig>>

(***************************************************************************)
(* Bounds of the model.                                                    *)
(***************************************************************************)
MaxSessions == 2    \* addSession is offered while the list it writes is no longer than this
MaxWrites == 3      \* store writes concurrent writers begin, in all
MaxRuns == 1        \* runs of the recovery engine over what one interruption left
MaxSigints == 2     \* interrupt signals delivered to one sandbox process
MaxCommits == 2     \* commits the git monitor reports to one sandbox process

(***************************************************************************)
(* JavaScript values.  A record is a function from the keys it owns to     *)
(* strings; the value undefined is a value a key can hold.                 *)
(***************************************************************************)
Undefined == "undefined"

\* The container identities in play.
Ids == {"c1", "c2"}

Statuses == {"active", "stopped", "exited"}

ExitTypes == {"intentional", "crash", "unknown"}

\* The fields of a SessionRecord the store's callers read and write.
SessionRecord(id, status) == [containerId |-> id, status |-> status]

\* obj.key
Get(obj, key) == IF key \in DOMAIN obj THEN obj[key] ELSE Undefined

\* { ...a, ...b }
Spread(a, b) ==
    [k \in (DOMAIN a) \cup (DOMAIN b) |-> IF k \in DOMAIN b THEN b[k] ELSE a[k]]

\* { ...obj, key: value }
With(obj, key, value) ==
    [k \in (DOMAIN obj) \cup {key} |-> IF k = key THEN value ELSE obj[k]]

AllKeys == {"containerId", "sessionId", "shadowRepoPath", "lastActivityTime", "status", "exitType"}

\* Two objects agree on every field a reader can name.
FieldEq(a, b) == \A k \in AllKeys : Get(a, k) = Get(b, k)

(***************************************************************************)
(* JSON text.  A file holds a sequence of tokens: the text JSON.stringify  *)
(* produces for { sessions } is an opening token, one token per record and *)
(* a closing token; any other document is one raw token.                   *)
(***************************************************************************)
TokOpen == [tok |-> "open"]

TokClose == [tok |-> "close"]

TokRec(r) == [tok |-> "rec", rec |-> r]

TokRaw(text) == [tok |-> "raw", text |-> text]

\* JSON.stringify of one object: a key holding undefined is left out.
StringifyRecord(obj) ==
    [k \in {j \in DOMAIN obj : obj[j] # Undefined} |-> obj[k]]

\* JSON.stringify({ sessions }, null, 2)
Stringify(sessions) ==
    <<TokOpen>> \o [i \in 1..Len(sessions) |-> TokRec(StringifyRecord(sessions[i]))] \o <<TokClose>>

RawDocs ==
    {"null", "42", "[]", "{}", "{\"sessions\":null}", "{\"sessions\":0}",
     "{\"sessions\":\"x\"}", "{\"sessions\":7}", "{\"sessions\":{}}", "garbage"}

JsThrow == [type |-> "throw"]

JsUndefined == [type |-> "undefined"]

JsList(items) == [type |-> "list", items |-> items]

JsObject(sessions) == [type |-> "object", sessions |-> sessions]

\* JSON.parse of a one-token document.
ParseRaw(text) ==
    CASE text = "null" -> [type |-> "null"]
      [] text = "42" -> [type |-> "number", truthy |-> TRUE]
      [] text = "[]" -> JsList(<<>>)
      [] text = "{}" -> JsObject(JsUndefined)
      [] text = "{\"sessions\":null}" -> JsObject([type |-> "null"])
      [] text = "{\"sessions\":0}" -> JsObject([type |-> "number", truthy |-> FALSE])
      [] text = "{\"sessions\":\"x\"}" -> JsObject([type |-> "string", truthy |-> TRUE])
      [] text = "{\"sessions\":7}" -> JsObject([type |-> "number", truthy |-> TRUE])
      [] text = "{\"sessions\":{}}" -> JsObject(JsObject(JsUndefined))
      [] OTHER -> JsThrow

\* JSON.parse(content): a SyntaxError unless the text is one complete document.
ParseJSON(toks) ==
    IF /\ Len(toks) >= 2
       /\ toks[1] = TokOpen
       /\ toks[Len(toks)] = TokClose
       /\ \A i \in 2..(Len(toks) - 1) : toks[i].tok = "rec"
    THEN JsObject(JsList([i \in 1..(Len(toks) - 2) |-> toks[i + 1].rec]))
    ELSE IF Len(toks) = 1 /\ toks[1].tok = "raw"
    THEN ParseRaw(toks[1].text)
    ELSE JsThrow

\* The truthiness `||` tests.
Truthy(v) ==
    CASE v.type \in {"undefined", "null", "throw"} -> FALSE
      [] v.type \in {"number", "string"} -> v.truthy
      [] OTHER -> TRUE

(***************************************************************************)
(* The file system under the store.                                        *)
(***************************************************************************)
Missing == [st |-> "missing", toks |-> <<>>]

Unreadable(toks) == [st |-> "unreadable", toks |-> toks]

File(toks) == [st |-> "file", toks |-> toks]

\* The real path of the store.
storePath == "store"

\* The temporary path is the real path itself.
tmpPathIsStorePath == "store"

\* this.storePath + ".tmp"
tmpPath == "tmp"

\* fs.rename(from, to): the file at `from` replaces the one at `to` in one step.
Rename(fs, from, to) ==
    IF from = to THEN fs ELSE [fs EXCEPT ![to] = fs[from], ![from] = Missing]

\* A write of one token at an offset of a file's content.
WriteAt(toks, offset, tok) ==
    IF offset < Len(toks) THEN [toks EXCEPT ![offset + 1] = tok] ELSE Append(toks, tok)

(***************************************************************************)
(* SessionStore                                                            *)
(***************************************************************************)
\* fs.readFile(storePath, "utf-8"): throws unless the path is a readable file.
readFile(fs) ==
    IF fs[storePath].st = "file"
    THEN [threw |-> FALSE, content |-> fs[storePath].toks]
    ELSE [threw |-> TRUE, content |-> <<>>]

\* The body of load()'s try block: the value it returns, JsThrow when a
\* statement of it throws.
loadTry(fs) ==
    LET read == readFile(fs) IN
    IF read.threw THEN JsThrow
    ELSE LET data == ParseJSON(read.content) IN
         IF data.type = "throw" THEN JsThrow
         ELSE IF data.type = "null" THEN JsThrow       \* data.sessions of null: a TypeError
         ELSE IF data.type = "object" /\ Truthy(data.sessions) THEN data.sessions
         ELSE JsList(<<>>)                             \* data.sessions || []

\* load(): catch { return [] }
load(fs) ==
    LET r == loadTry(fs) IN
    IF r.type = "throw" THEN JsList(<<>>) ELSE r

\* The records load() returns, when it returns a list.
Sessions(fs) == load(fs).items

\* save(sessions) without the rename: the list only reaches the temporary path.
saveNoRename(fs, sessions, fail) ==
    [fs |-> [fs EXCEPT ![tmpPath] = File(Stringify(sessions))], raised |-> FALSE]

\* save(sessions): write the whole list to the temporary path, rename it over
\* the real one.  `fail` names the step that throws, "none" when none does.
save(fs, sessions, fail) ==
    IF fail = "mkdir" THEN [fs |-> fs, raised |-> TRUE]
    ELSE IF fail = "write" THEN [fs |-> [fs EXCEPT ![tmpPath] = File(<<>>)], raised |-> TRUE]
    ELSE LET written == [fs EXCEPT ![tmpPath] = File(Stringify(sessions))] IN
         IF fail = "rename" THEN [fs |-> written, raised |-> TRUE]
         ELSE [fs |-> Rename(written, tmpPath, storePath), raised |-> FALSE]

\* sessions.filter((s) => s.containerId !== id)
Filter(items, id) == SelectSeq(items, LAMBDA s : Get(s, "containerId") # id)

\* findIndex: the first index that matches, 0 for none (-1 in the source).
FindIndex(items, id) ==
    IF \E i \in 1..Len(items) : Get(items[i], "containerId") = id
    THEN CHOOSE i \in 1..Len(items) :
            /\ Get(items[i], "containerId") = id
            /\ \A j \in 1..(i - 1) : Get(items[j], "containerId") # id
    ELSE 0

\* A call of an array method on a value that is no array.
TypeError(fs) == [fs |-> fs, raised |-> TRUE, hit |-> FALSE]

Saved(r, hit) == [fs |-> r.fs, raised |-> r.raised, hit |-> hit]

\* addSession that merges the new record into the stored one of the same id.
addSessionMerging(fs, session, fail) ==
    LET sessions == load(fs)
        id == Get(session, "containerId")
        idx == FindIndex(sessions.items, id) IN
    IF idx >= 1
    THEN Saved(save(fs, Append(Filter(sessions.items, id), Spread(sessions.items[idx], session)), fail), TRUE)
    ELSE Saved(save(fs, Append(sessions.items, session), fail), FALSE)

addSession(fs, session, fail) ==
    LET sessions == load(fs) IN
    IF sessions.type # "list" THEN TypeError(fs)
    ELSE Saved(save(fs, Append(Filter(sessions.items, Get(session, "containerId")), session), fail), FALSE)

\* updateSession that stores the updates in place of the record.
updateSessionReplacing(fs, containerId, updates, fail) ==
    LET sessions == load(fs)
        idx == FindIndex(sessions.items, containerId) IN
    IF idx >= 1
    THEN Saved(save(fs, [sessions.items EXCEPT ![idx] = With(updates, "containerId", containerId)], fail), TRUE)
    ELSE [fs |-> fs, raised |-> FALSE, hit |-> FALSE]

updateSession(fs, containerId, updates, fail) ==
    LET sessions == load(fs) IN
    IF sessions.type # "list" THEN TypeError(fs)
    ELSE LET idx == FindIndex(sessions.items, containerId) IN
         IF idx >= 1
         THEN Saved(save(fs, [sessions.items EXCEPT ![idx] = Spread(sessions.items[idx], updates)], fail), TRUE)
         ELSE [fs |-> fs, raised |-> FALSE, hit |-> FALSE]

\* removeSession that writes an empty list.
removeSessionEveryone(fs, containerId, fail) == Saved(save(fs, <<>>, fail), FALSE)

removeSession(fs, containerId, fail) ==
    LET sessions == load(fs) IN
    IF sessions.type # "list" THEN TypeError(fs)
    ELSE Saved(save(fs, Filter(sessions.items, containerId), fail), FALSE)

clearAll(fs, fail) == Saved(save(fs, <<>>, fail), FALSE)

(***************************************************************************)
(* The store driven through its public operations by one caller.           *)
(***************************************************************************)
NoArg == [k \in {} |-> Undefined]

NotLoaded == [type |-> "none"]

Op(name, id, arg, r) ==
    [op |-> name, id |-> id, arg |-> arg, hit |-> r.hit,
     outcome |-> IF r.raised THEN "raised" ELSE "ok"]

NoOp == [op |-> "none", id |-> "", arg |-> NoArg, hit |-> FALSE, outcome |-> "ok"]

\* The records a caller hands to addSession: exitType present, absent, or undefined.
InputRecords ==
    LET base == {SessionRecord(id, s) : id \in Ids, s \in {"active", "exited"}} IN
    base \cup {With(r, "exitType", e) : r \in base, e \in {Undefined, "crash"}}

\* Partial<SessionRecord>: any subset of the fields, containerId among them.
InputUpdates ==
    {u \in [{"containerId", "status", "exitType"} -> Ids \cup {"active", "absent", Undefined, "crash"}] :
        /\ u["containerId"] \in Ids \cup {"absent"}
        /\ u["status"] \in {"active", "absent"}
        /\ u["exitType"] \in {Undefined, "crash", "absent"}}

\* The object literal of an update: the keys marked absent are not in it.
UpdateObject(u) == [k \in {j \in DOMAIN u : u[j] # "absent"} |-> u[k]]

\* The processes that write the store.
Writers == {"w1", "w2"}

NoFiles == [p \in {"store", "tmp"} |-> Missing]

InitWriters ==
    /\ pc = [w \in Writers |-> "idle"]
    /\ pending = [w \in Writers |-> <<>>]
    /\ fd = [w \in Writers |-> "none"]
    /\ off = [w \in Writers |-> 0]
    /\ before = [w \in Writers |-> Missing]
    /\ writes = 0

\* The short form of a container identity: containerId.substring(0, 12).
ShortId(id) == IF id = "c1" THEN "s1" ELSE IF id = "c2" THEN "s2" ELSE "s0"

\* SHADOW_BASE_PATH/<sessionId>
ShadowPath(id) == "shadows/" \o ShortId(id)

ShadowPaths == {ShadowPath(id) : id \in Ids}

NoShadow == [exists |-> FALSE, remote |-> "none", tree |-> "clean", pushed |-> FALSE]

\* No session picked.
NoSession == [session |-> NoArg, containerState |-> "none", shadowExists |-> FALSE]

\* No recovery command run yet.
NoRun ==
    [n |-> 0, cmd |-> "none", scanned |-> <<>>, session |-> NoSession, choice |-> "", effects |-> <<>>,
     offered |-> {}, result |-> "returned", storeFailed |-> FALSE, report |-> <<>>, exit |-> "none",
     confirm |-> FALSE, flags |-> {}]

\* The invocations of the asynchronous handlers of one sandbox process: the
\* stream's "end" listener, the SIGINT listener and the commit listener.
TaskIds ==
    {<<"end", 1>>} \cup {<<"sigint", k>> : k \in 1..MaxSigints} \cup {<<"commit", k>> : k \in 1..MaxCommits}

\* The collaborator calls of cleanup and of the commit actions.
CallNames == {"gitMonitor.stop", "containerManager.cleanup", "webServer.stop", "git.push", "gh pr create"}

NoCalls == [c \in CallNames |-> 0]

\* An invocation: the call it awaits (or idle, returned, warned, rejected,
\* exited), for a commit the action the operator chose, and the steps it took.
Task(at, action, steps) == [at |-> at, action |-> action, steps |-> steps]

NoTasks == [t \in TaskIds |-> Task("idle", "", <<>>)]

\* The start command has not called run.
NotStarted == [state |-> "new", code |-> "none"]

NoSandbox == [useWebUI |-> TRUE, webServer |-> FALSE, container |-> FALSE, monitor |-> FALSE]

\* No option of the start command is given.
NoConfig ==
    [prNumber |-> Undefined, remoteBranch |-> Undefined, targetBranch |-> Undefined,
     gh |-> "unused", today |-> <<>>, now |-> <<>>]

\* prepareContainer was not reached.
NotPrepared == [state |-> "none"]

\* No sandbox process has started anything.
InitNoSandbox ==
    /\ proc = NotStarted
    /\ isTTY = TRUE
    /\ sandbox = NoSandbox
    /\ config = NoConfig
    /\ containerConfig = NotPrepared
    /\ rawMode = FALSE
    /\ tasks = NoTasks
    /\ calls = NoCalls

\* No container, no shadow repo, no recovery run.
InitNoRecovery ==
    /\ containers = [id \in Ids |-> "gone"]
    /\ shadows = [p \in ShadowPaths |-> NoShadow]
    /\ copies = [p \in ShadowPaths |-> "none"]
    /\ rec = NoRun

InitStore ==
    /\ files = NoFiles
    /\ lastOp = NoOp
    /\ replaced = NoArg
    /\ added = <<>>
    /\ loaded = NotLoaded
    /\ InitWriters
    /\ InitNoSandbox
    /\ InitNoRecovery

AddSession ==
    \E session \in InputRecords :
        LET r == addSession(files, session, "none")
            id == session["containerId"] IN
        /\ Len(Filter(Sessions(files), id)) < MaxSessions
        /\ files' = r.fs
        /\ lastOp' = Op("add", id, session, r)
        /\ replaced' = IF lastOp.op = "add" /\ lastOp.outcome = "ok" /\ lastOp.id = id
                       THEN lastOp.arg
                       ELSE NoArg
        /\ added' = IF /\ Len(added) = Len(Sessions(files))
                       /\ \A i \in 1..Len(added) : added[i]["containerId"] # id
                    THEN Append(added, session)
                    ELSE <<>>
        /\ UNCHANGED <<loaded, writeVars, recVars, orchVars, branchVars>>

UpdateSession ==
    \E id \in Ids, u \in InputUpdates :
        LET r == updateSession(files, id, UpdateObject(u), "none") IN
        /\ files' = r.fs
        /\ lastOp' = Op("update", id, UpdateObject(u), r)
        /\ replaced' = NoArg
        /\ added' = <<>>
        /\ UNCHANGED <<loaded, writeVars, recVars, orchVars, branchVars>>

RemoveSession ==
    \E id \in Ids :
        LET r == removeSession(files, id, "none") IN
        /\ files' = r.fs
        /\ lastOp' = Op("remove", id, NoArg, r)
        /\ replaced' = NoArg
        /\ added' = <<>>
        /\ UNCHANGED <<loaded, writeVars, recVars, orchVars, branchVars>>

ClearAll ==
    LET r == clearAll(files, "none") IN
    /\ files' = r.fs
    /\ lastOp' = Op("clear", "", NoArg, r)
    /\ replaced' = NoArg
    /\ added' = <<>>
    /\ UNCHANGED <<loaded, writeVars, recVars, orchVars, branchVars>>

NextStore == AddSession \/ UpdateSession \/ RemoveSession \/ ClearAll

Spec == InitStore /\ [][NextStore]_vars

(***************************************************************************)
(* Claims about the store's public operations (specification Spec).        *)
(***************************************************************************)
\* The containerIds of the records load() returns are pairwise distinct.
UniqueIds(items) ==
    \A i, j \in 1..Len(items) :
        i # j => Get(items[i], "containerId") # Get(items[j], "containerId")

\* The positions of the records with this containerId.
Matching(items, id) == {i \in 1..Len(items) : Get(items[i], "containerId") = id}

\* C1: after any sequence of addSession, updateSession, removeSession and
\* clearAll calls, with any arguments (a partial update may carry a
\* containerId), no two stored records have the same containerId.
C1_UniqueContainerIds == UniqueIds(Sessions(files))

\* C2: after addSession(A) followed by addSession(A') with A's containerId,
\* load() returns exactly one record with that containerId, and it equals A'
\* field for field.
C2_UpsertReplaces ==
    (lastOp.op = "add" /\ lastOp.outcome = "ok" /\ replaced # NoArg) =>
        LET items == Sessions(files) IN
        /\ Cardinality(Matching(items, lastOp.id)) = 1
        /\ \A i \in Matching(items, lastOp.id) : FieldEq(items[i], lastOp.arg)

\* C2's case: A' replaced an A of the same containerId that differs from it in
\* a field A' does not own, in a store holding another record too.
C2_Witness ==
    /\ lastOp.op = "add"
    /\ lastOp.outcome = "ok"
    /\ replaced # NoArg
    /\ "exitType" \in DOMAIN replaced
    /\ replaced["exitType"] = "crash"
    /\ "exitType" \notin DOMAIN lastOp.arg
    /\ Len(Sessions(files)) = 2

\* C3: records with pairwise distinct containerIds added one by one to an
\* empty store are what load() returns: as many records, each equal field for
\* field to one added, and each added one equal to one returned.
C3_RoundTrip ==
    (added # <<>>) =>
        LET items == Sessions(files) IN
        /\ load(files).type = "list"
        /\ Len(items) = Len(added)
        /\ \A i \in 1..Len(added) : \E j \in 1..Len(items) : FieldEq(items[j], added[i])
        /\ \A j \in 1..Len(items) : \E i \in 1..Len(added) : FieldEq(items[j], added[i])

\* C3's case: two records were added to the empty store, one of them carrying
\* a key that holds undefined.
C3_Witness ==
    /\ Len(added) = 2
    /\ \E i \in 1..2 : "exitType" \in DOMAIN added[i] /\ added[i]["exitType"] = Undefined
    /\ \E i \in 1..2 : "exitType" \in DOMAIN added[i] /\ added[i]["exitType"] = "crash"

\* C7: updateSession(containerId, partialFields) leaves the number and order of
\* the records and every record but the first one with that containerId as they
\* were; on that record the fields named in partialFields take the values
\* given and every other field keeps its value; with no such record nothing is
\* written and both paths of the store keep their content.
C7_UpdateFrame ==
    [][lastOp'.op = "update" =>
        LET old == Sessions(files)
            new == Sessions(files')
            hits == Matching(old, lastOp'.id)
            idx == IF hits = {} THEN 0 ELSE CHOOSE i \in hits : \A j \in hits : i <= j
            updates == lastOp'.arg IN
        /\ lastOp'.hit = (idx >= 1)
        /\ Len(new) = Len(old)
        /\ \A i \in 1..Len(old) : i # idx => new[i] = old[i]
        /\ idx >= 1 =>
              \A k \in AllKeys :
                  Get(new[idx], k) = IF k \in DOMAIN updates THEN updates[k] ELSE Get(old[idx], k)
        /\ idx = 0 => files' = files]_vars

\* C7's case: an update naming exitType alone hit the first of two records.
C7_Witness ==
    /\ lastOp.op = "update"
    /\ lastOp.hit
    /\ DOMAIN lastOp.arg = {"exitType"}
    /\ Len(Sessions(files)) = 2
    /\ Get(Sessions(files)[1], "containerId") = lastOp.id
    /\ Get(Sessions(files)[1], "status") = "exited"
    /\ Get(Sessions(files)[2], "status") = "active"

(***************************************************************************)
(* load() against whatever the real path may hold (specification          *)
(* SpecLoad): no file, an unreadable one, an empty one, a truncated        *)
(* document, a document of another shape, a complete one.                  *)
(***************************************************************************)
StoredRecords == {StringifyRecord(r) : r \in InputRecords}

\* The lists of at most n records.
ListsUpTo(n) == UNION {[1..k -> StoredRecords] : k \in 0..n}

Prefixes(toks) == {SubSeq(toks, 1, k) : k \in 0..Len(toks)}

StoreContents ==
    LET docs == {Stringify(l) : l \in ListsUpTo(MaxSessions)} IN
    {Missing, Unreadable(Stringify(<<>>))}
        \cup {File(<<TokRaw(d)>>) : d \in RawDocs}
        \cup {File(t) : t \in UNION {Prefixes(d) : d \in docs}}
        \cup {File(Tail(d)) : d \in docs}

InitLoad ==
    /\ files \in {[NoFiles EXCEPT ![storePath] = c] : c \in StoreContents}
    /\ lastOp = NoOp
    /\ replaced = NoArg
    /\ added = <<>>
    /\ loaded = NotLoaded
    /\ InitWriters
    /\ InitNoSandbox
    /\ InitNoRecovery

\* A call of load(); an exception leaving it is recorded as JsThrow.
Load ==
    /\ loaded' = load(files)
    /\ UNCHANGED <<files, storeHist, writeVars, recVars, orchVars, branchVars>>

NextLoad == Load

SpecLoad == InitLoad /\ [][NextLoad]_vars

\* The file is a JSON object holding a list under "sessions".
HoldsSessionList(f) ==
    /\ f.st = "file"
    /\ Len(f.toks) >= 2
    /\ f.toks[1] = TokOpen
    /\ f.toks[Len(f.toks)] = TokClose
    /\ \A i \in 2..(Len(f.toks) - 1) : f.toks[i].tok = "rec"

\* C4: load() never raises, and returns the empty list whenever the store
\* file is missing, unreadable, empty or malformed (no valid JSON, or JSON that
\* is no object holding a list under "sessions").
C4_LoadFailsOpen ==
    (loaded # NotLoaded) =>
        /\ loaded.type # "throw"
        /\ ~HoldsSessionList(files[storePath]) => loaded = JsList(<<>>)

(***************************************************************************)
(* A store write step by step (specifications SpecCrash, SpecConc): the    *)
(* load, the open of the temporary path (which truncates it), the write of *)
(* the text token by token, the rename.                                    *)
(***************************************************************************)
\* The store operations a writer process runs.
WriterOps ==
    {[op |-> "add", id |-> r["containerId"], arg |-> r] : r \in {SessionRecord(id, "active") : id \in Ids}}
        \cup {[op |-> "remove", id |-> id, arg |-> NoArg] : id \in Ids}
        \cup {[op |-> "update", id |-> id, arg |-> [status |-> "exited"]] : id \in Ids}
        \cup {[op |-> "clear", id |-> "", arg |-> NoArg]}

\* The list the operation hands to save(), given what load() returned.
ToSave(items, o) ==
    CASE o.op = "add" -> Append(Filter(items, o.id), o.arg)
      [] o.op = "remove" -> Filter(items, o.id)
      [] o.op = "update" -> [items EXCEPT ![FindIndex(items, o.id)] = Spread(items[FindIndex(items, o.id)], o.arg)]
      [] OTHER -> <<>>

\* Whether the operation calls save() at all.
Saves(items, o) == o.op = "update" => FindIndex(items, o.id) >= 1

\* The operation starts: load(), then the list for save() is built.
Begin(w) ==
    \E o \in WriterOps :
        LET items == Sessions(files) IN
        /\ pc[w] \in {"idle", "crashed", "failed"}
        /\ Saves(items, o)
        /\ Len(ToSave(items, o)) <= MaxSessions
        /\ pending' = [pending EXCEPT ![w] = ToSave(items, o)]
        /\ before' = [before EXCEPT ![w] = files[storePath]]
        /\ pc' = [pc EXCEPT ![w] = "open"]
        /\ UNCHANGED <<files, fd, off, storeHist, loaded, recVars, orchVars, branchVars>>

\* fs.writeFile opens the temporary path for writing: created, or truncated.
OpenTmp(w) ==
    /\ pc[w] = "open"
    /\ files' = [files EXCEPT ![tmpPath] = File(<<>>)]
    /\ fd' = [fd EXCEPT ![w] = tmpPath]
    /\ off' = [off EXCEPT ![w] = 0]
    /\ pc' = [pc EXCEPT ![w] = "write"]
    /\ UNCHANGED <<pending, before, writes, storeHist, loaded, recVars, orchVars, branchVars>>

\* fs.writeFile writes the next piece of the text through its descriptor.
WriteTmp(w) ==
    LET text == Stringify(pending[w]) IN
    /\ pc[w] = "write"
    /\ off[w] < Len(text)
    /\ files' = IF fd[w] \in {"store", "tmp"}
                THEN [files EXCEPT ![fd[w]] = File(WriteAt(files[fd[w]].toks, off[w], text[off[w] + 1]))]
                ELSE files
    /\ off' = [off EXCEPT ![w] = off[w] + 1]
    /\ UNCHANGED <<pc, pending, fd, before, writes, storeHist, loaded, recVars, orchVars, branchVars>>

\* fs.writeFile closes the descriptor once the whole text is written.
CloseTmp(w) ==
    /\ pc[w] = "write"
    /\ off[w] = Len(Stringify(pending[w]))
    /\ fd' = [fd EXCEPT ![w] = "none"]
    /\ pc' = [pc EXCEPT ![w] = "rename"]
    /\ UNCHANGED <<files, pending, off, before, writes, storeHist, loaded, recVars, orchVars, branchVars>>

\* Where an open descriptor's file is linked after rename(tmpPath, storePath).
Relinked(at) ==
    IF tmpPath = storePath THEN at
    ELSE IF at = tmpPath THEN storePath
    ELSE IF at = storePath THEN "unlinked"
    ELSE at

\* fs.rename(tmpPath, storePath); it throws when the temporary path is gone.
RenameTmp(w) ==
    /\ pc[w] = "rename"
    /\ IF files[tmpPath].st = "missing"
       THEN /\ pc' = [pc EXCEPT ![w] = "failed"]
            /\ UNCHANGED <<files, fd>>
       ELSE /\ files' = Rename(files, tmpPath, storePath)
            /\ fd' = [v \in Writers |-> Relinked(fd[v])]
            /\ pc' = [pc EXCEPT ![w] = "idle"]
    /\ UNCHANGED <<pending, off, before, writes, storeHist, loaded, recVars, orchVars, branchVars>>

\* The process dies inside the write; its descriptor goes with it.
Crash(w) ==
    /\ pc[w] \in {"open", "write", "rename"}
    /\ pc' = [pc EXCEPT ![w] = "crashed"]
    /\ fd' = [fd EXCEPT ![w] = "none"]
    /\ UNCHANGED <<files, pending, off, before, writes, storeHist, loaded, recVars, orchVars, branchVars>>

\* A store operation of the only writer.
BeginAlone(w) == Begin(w) /\ UNCHANGED writes

\* A store operation of one of several writers.
BeginConcurrent(w) == writes < MaxWrites /\ Begin(w) /\ writes' = writes + 1

NextCrash ==
    \/ BeginAlone("w1")
    \/ OpenTmp("w1")
    \/ WriteTmp("w1")
    \/ CloseTmp("w1")
    \/ RenameTmp("w1")
    \/ Crash("w1")

SpecCrash == InitStore /\ [][NextCrash]_vars

NextConc ==
    \E w \in Writers :
        \/ BeginConcurrent(w)
        \/ OpenTmp(w)
        \/ WriteTmp(w)
        \/ CloseTmp(w)
        \/ RenameTmp(w)

SpecConc == InitStore /\ [][NextConc]_vars

\* A content a reader takes whole: no file yet, or one complete document.
Complete(f) == f.st = "missing" \/ HoldsSessionList(f)

\* C5: with a single writer, whatever the point of a store write at which the
\* process crashes, the real path holds the complete previous content or the
\* complete new content, never a truncated or mixed one.
C5_CrashAtomic ==
    /\ Complete(files[storePath])
    /\ files[storePath] \in {before["w1"], File(Stringify(pending["w1"]))}

\* C5's case: the process crashed after part of the text was written, and the
\* real path still holds the previous, non-empty list.
C5_Witness ==
    /\ pc["w1"] = "crashed"
    /\ files[tmpPath].st = "file"
    /\ Len(files[tmpPath].toks) = 2
    /\ Len(pending["w1"]) = 2
    /\ HoldsSessionList(files[storePath])
    /\ Len(Sessions(files)) = 1

\* C6: with two processes writing the store concurrently through the same
\* temporary path, the real path always holds a complete record list (or no
\* file): never a truncated or mixed text.
C6_ConcurrentComplete == Complete(files[storePath])

(***************************************************************************)
(* Recovery: the records a crashed session leaves, the containers and the  *)
(* shadow repos they name, and the collaborators recoverSession calls.     *)
(***************************************************************************)
\* new Date().toISOString() when the session was last active, and when it is recovered.
LastActive == "t0"

\* The reading of the clock during the n-th run.
Recovered(n) == "t" \o ToString(n)

\* The record a session left in the store before it was interrupted.
StaleRecord(id) ==
    [containerId |-> id, sessionId |-> ShortId(id), shadowRepoPath |-> ShadowPath(id),
     lastActivityTime |-> LastActive, status |-> "stopped"]

\* container.inspect(): throws when there is no such container.
inspect(cs, id) ==
    IF id \in DOMAIN cs /\ cs[id] # "gone"
    THEN [threw |-> FALSE, Running |-> cs[id] = "running"]
    ELSE [threw |-> TRUE, Running |-> FALSE]

\* fsExtra.pathExists(path)
pathExists(shs, path) == path \in DOMAIN shs /\ shs[path].exists

\* { ...session, containerState, shadowExists }: the loop body's facts about one record.
Recoverable(session, cs, shs) ==
    LET info == inspect(cs, Get(session, "containerId")) IN
    [session |-> session,
     containerState |-> IF info.threw THEN "gone"
                        ELSE IF info.Running THEN "running" ELSE "stopped",
     shadowExists |-> pathExists(shs, Get(session, "shadowRepoPath"))]

\* getRecoverableSessions that asks for a container and a shadow repo both.
getRecoverableSessionsBoth(fs, cs, shs) ==
    LET sessions == Sessions(fs)
        all == [i \in 1..Len(sessions) |-> Recoverable(sessions[i], cs, shs)] IN
    SelectSeq(all, LAMBDA r : r.containerState # "gone" /\ r.shadowExists)

getRecoverableSessions(fs, cs, shs) ==
    LET sessions == Sessions(fs)
        all == [i \in 1..Len(sessions) |-> Recoverable(sessions[i], cs, shs)] IN
    SelectSeq(all, LAMBDA r : r.containerState # "gone" \/ r.shadowExists)

\* What recoverSession can reach: the store's files, the containers, the
\* shadow repos and the copies made of them.
World(fs, cs, shs, cps) == [fs |-> fs, containers |-> cs, shadows |-> shs, copies |-> cps]

\* The outcome of a call of recoverSession: the world it leaves, the calls it
\* made in order, the choices it offered, how it ended and what it printed.
Run(w, effects, offered, result, storeFailed, report) ==
    [w |-> w, effects |-> effects, offered |-> offered, result |-> result,
     storeFailed |-> storeFailed, report |-> report]

\* The step of a run that fails, as the failure save() is given.
StoreFail(env) ==
    IF env.failAt = "store.write" THEN "write"
    ELSE IF env.failAt = "store.rename" THEN "rename"
    ELSE "none"

\* The state of a shadow repo that has a remote and a working tree.
ShadowRepo(remote, tree) == [exists |-> TRUE, remote |-> remote, tree |-> tree, pushed |-> FALSE]

\* `git remote -v` prints the word origin: for a remote named origin, and for
\* another remote whose name or URL contains the word.
RemoteOutputIncludesOrigin(repo) == repo.remote \in {"origin", "lookalike"}

\* Reattach that marks the record active and leaves its lastActivityTime.
ReattachStatusOnly(w, session, env, pre) ==
    LET r == updateSession(w.fs, Get(session.session, "containerId"), [status |-> "active"],
                           StoreFail(env)) IN
    Run([w EXCEPT !.fs = r.fs],
        pre \o <<"webServer.start", "openInBrowser", "store.updateSession">>, {},
        IF r.raised THEN "raised" ELSE "waiting", r.raised, <<>>)

\* The running branch, and the stopped branch after container.start(): start
\* the web UI, open the browser, mark the record active, never return.
Reattach(w, session, env, pre) ==
    LET id == Get(session.session, "containerId")
        e1 == Append(pre, "webServer.start")
        e2 == Append(e1, "openInBrowser")
        e3 == Append(e2, "store.updateSession") IN
    IF env.failAt = "webServer.start" THEN Run(w, e1, {}, "raised", FALSE, <<>>)
    ELSE IF env.failAt = "openInBrowser" THEN Run(w, e2, {}, "raised", FALSE, <<>>)
    ELSE LET r == updateSession(w.fs, id,
                                [status |-> "active", lastActivityTime |-> Recovered(env.now)],
                                StoreFail(env)) IN
         IF r.raised THEN Run([w EXCEPT !.fs = r.fs], e3, {}, "raised", TRUE, <<>>)
         ELSE Run([w EXCEPT !.fs = r.fs], e3, {}, "waiting", FALSE, <<"Keep this terminal open">>)

\* The stopped branch: container.start(), then as the running branch.
Resume(w, session, env) ==
    LET id == Get(session.session, "containerId")
        e1 == <<"container.start">> IN
    IF env.failAt = "container.start" \/ inspect(w.containers, id).threw
    THEN Run(w, e1, {}, "raised", FALSE, <<>>)
    ELSE Reattach([w EXCEPT !.containers[id] = "running"], session, env, e1)

\* case "push" with no try of its own around the commit.
casePushCommitStops(w, session, env, pre) ==
    LET id == Get(session.session, "containerId")
        path == Get(session.session, "shadowRepoPath")
        repo == w.shadows[path]
        caught(w2, eff, said) == Run(w2, eff, {}, "returned", FALSE, Append(said, "Push failed"))
        e1 == Append(pre, "git.remote")
        e2 == Append(e1, "git.add")
        e3 == Append(e2, "git.commit")
        e4 == Append(e3, "git.branch")
        e5 == Append(e4, "git.push")
        e6 == Append(e5, "store.removeSession") IN
    IF env.failAt = "git.remote" THEN caught(w, e1, <<>>)
    ELSE IF ~RemoteOutputIncludesOrigin(repo)
    THEN Run(w, e1, {}, "returned", FALSE, <<"No remote 'origin' configured in shadow repo.">>)
    ELSE IF env.failAt = "git.add" THEN caught(w, e2, <<>>)
    ELSE LET staged == [repo EXCEPT !.tree = IF @ = "dirty" THEN "staged" ELSE @]
             \* the commit's own try: a failure here is dropped
             committed == IF env.failAt # "git.commit" /\ staged.tree = "staged"
                          THEN [staged EXCEPT !.tree = "committed"]
                          ELSE staged
             w3 == [w EXCEPT !.shadows[path] = committed] IN
         IF env.failAt = "git.commit" THEN caught(w3, e3, <<>>)
         ELSE IF env.failAt = "git.branch" THEN caught(w3, e4, <<>>)
         ELSE IF env.failAt = "git.push" \/ repo.remote # "origin" THEN caught(w3, e5, <<>>)
         ELSE LET w5 == [w3 EXCEPT !.shadows[path].pushed = TRUE]
                  r == removeSession(w5.fs, id, StoreFail(env)) IN
              IF r.raised
              THEN [caught([w5 EXCEPT !.fs = r.fs], e6, <<"Pushed branch">>) EXCEPT !.storeFailed = TRUE]
              ELSE Run([w5 EXCEPT !.fs = r.fs], e6, {}, "returned", FALSE, <<"Pushed branch">>)

\* case "push": everything from `git remote -v` to store.removeSession runs in
\* one try block whose catch prints "Push failed:" and goes on.
casePush(w, session, env, pre) ==
    LET id == Get(session.session, "containerId")
        path == Get(session.session, "shadowRepoPath")
        repo == w.shadows[path]
        caught(w2, eff, said) == Run(w2, eff, {}, "returned", FALSE, Append(said, "Push failed"))
        e1 == Append(pre, "git.remote")
        e2 == Append(e1, "git.add")
        e3 == Append(e2, "git.commit")
        e4 == Append(e3, "git.branch")
        e5 == Append(e4, "git.push")
        e6 == Append(e5, "store.removeSession") IN
    IF env.failAt = "git.remote" THEN caught(w, e1, <<>>)
    ELSE IF ~RemoteOutputIncludesOrigin(repo)
    THEN Run(w, e1, {}, "returned", FALSE, <<"No remote 'origin' configured in shadow repo.">>)
    ELSE IF env.failAt = "git.add" THEN caught(w, e2, <<>>)
    ELSE LET staged == [repo EXCEPT !.tree = IF @ = "dirty" THEN "staged" ELSE @]
             \* the commit's own try: a failure here is dropped
             committed == IF env.failAt # "git.commit" /\ staged.tree = "staged"
                          THEN [staged EXCEPT !.tree = "committed"]
                          ELSE staged
             w3 == [w EXCEPT !.shadows[path] = committed] IN
         IF env.failAt = "git.branch" THEN caught(w3, e4, <<>>)
         ELSE IF env.failAt = "git.push" \/ repo.remote # "origin" THEN caught(w3, e5, <<>>)
         ELSE LET w5 == [w3 EXCEPT !.shadows[path].pushed = TRUE]
                  r == removeSession(w5.fs, id, StoreFail(env)) IN
              IF r.raised
              THEN [caught([w5 EXCEPT !.fs = r.fs], e6, <<"Pushed branch">>) EXCEPT !.storeFailed = TRUE]
              ELSE Run([w5 EXCEPT !.fs = r.fs], e6, {}, "returned", FALSE, <<"Pushed branch">>)

\* case "copy" that retires the record before the copy is made.
caseCopyRemovesFirst(w, session, env, pre) ==
    LET id == Get(session.session, "containerId")
        path == Get(session.session, "shadowRepoPath")
        e1 == Append(pre, "prompt.destPath")
        e2 == Append(e1, "store.removeSession")
        e3 == Append(e2, "fs.copy")
        r == removeSession(w.fs, id, StoreFail(env))
        w2 == [w EXCEPT !.fs = r.fs] IN
    IF r.raised THEN Run(w2, e2, {}, "raised", TRUE, <<>>)
    ELSE IF env.failAt = "fs.copy"
    THEN Run([w2 EXCEPT !.copies[path] = "partial"], e3, {}, "raised", FALSE, <<>>)
    ELSE Run([w2 EXCEPT !.copies[path] = "complete"], e3, {}, "returned", FALSE, <<"Copied to">>)

\* case "copy": no try block.
caseCopy(w, session, env, pre) ==
    LET id == Get(session.session, "containerId")
        path == Get(session.session, "shadowRepoPath")
        e1 == Append(pre, "prompt.destPath")
        e2 == Append(e1, "fs.copy")
        e3 == Append(e2, "store.removeSession") IN
    IF env.failAt = "fs.copy"
    THEN Run([w EXCEPT !.copies[path] = "partial"], e2, {}, "raised", FALSE, <<>>)
    ELSE LET w2 == [w EXCEPT !.copies[path] = "complete"]
             r == removeSession(w2.fs, id, StoreFail(env)) IN
         Run([w2 EXCEPT !.fs = r.fs], e3, {}, IF r.raised THEN "raised" ELSE "returned",
             r.raised, <<"Copied to">>)

\* case "show"
caseShow(w, session, env, pre) ==
    Run(w, pre, {}, "returned", FALSE, <<"Shadow repo path", "Session record preserved.">>)

\* case "discard" that deletes without waiting for the answer.
caseDiscardUnasked(w, session, env, pre) ==
    LET path == Get(session.session, "shadowRepoPath")
        w2 == [w EXCEPT !.shadows[path] = NoShadow]
        r == removeSession(w2.fs, Get(session.session, "containerId"), StoreFail(env)) IN
    Run([w2 EXCEPT !.fs = r.fs], pre \o <<"prompt.confirm", "fs.remove", "store.removeSession">>,
        {}, IF r.raised THEN "raised" ELSE "returned", r.raised, <<>>)

\* case "discard": no try block.
caseDiscard(w, session, env, pre) ==
    LET id == Get(session.session, "containerId")
        path == Get(session.session, "shadowRepoPath")
        e1 == Append(pre, "prompt.confirm")
        e2 == Append(e1, "fs.remove")
        e3 == Append(e2, "store.removeSession") IN
    IF ~env.confirm THEN Run(w, e1, {}, "returned", FALSE, <<"Discard cancelled.">>)
    ELSE IF env.failAt = "fs.remove" THEN Run(w, e2, {}, "raised", FALSE, <<>>)
    ELSE LET w2 == [w EXCEPT !.shadows[path] = NoShadow]
             r == removeSession(w2.fs, id, StoreFail(env)) IN
         IF r.raised THEN Run([w2 EXCEPT !.fs = r.fs], e3, {}, "raised", TRUE, <<>>)
         ELSE Run([w2 EXCEPT !.fs = r.fs], e3, {}, "returned", FALSE,
                  <<"Shadow repo and session record removed.">>)

\* The choices of the prompt of the gone-with-shadow branch.
Choices == {"push", "copy", "show", "discard"}

\* The gone-with-shadow branch: prompt for an action, switch on the answer.
Offer(w, session, env) ==
    LET pre == <<"prompt.action">>
        run == CASE env.action = "push" -> casePush(w, session, env, pre)
                 [] env.action = "copy" -> caseCopy(w, session, env, pre)
                 [] env.action = "show" -> caseShow(w, session, env, pre)
                 [] env.action = "discard" -> caseDiscard(w, session, env, pre) IN
    [run EXCEPT !.offered = Choices]

\* The last branch: container and shadow repo both gone.
Unrecoverable(w, session, env) ==
    LET r == removeSession(w.fs, Get(session.session, "containerId"), StoreFail(env)) IN
    IF r.raised
    THEN Run([w EXCEPT !.fs = r.fs], <<"store.removeSession">>, {}, "raised", TRUE,
             <<"unrecoverable">>)
    ELSE Run([w EXCEPT !.fs = r.fs], <<"store.removeSession">>, {}, "returned", FALSE,
             <<"unrecoverable", "Session record cleaned up.">>)

\* recoverSession that looks at the shadow repo before the container.
recoverSessionShadowFirst(w, session, env) ==
    IF session.shadowExists THEN Offer(w, session, env)
    ELSE IF session.containerState = "gone" THEN Unrecoverable(w, session, env)
    ELSE Reattach(w, session, env, <<>>)

\* recoverSession(docker, session, store); `env` holds the operator's answers
\* and the step that fails.
recoverSession(w, session, env) ==
    IF session.containerState = "running" THEN Reattach(w, session, env, <<>>)
    ELSE IF session.containerState = "stopped" THEN Resume(w, session, env)
    ELSE IF session.shadowExists THEN Offer(w, session, env)
    ELSE Unrecoverable(w, session, env)

\* sessions.find((s) => s.containerId === selectedId)
Find(sessions, selectedId) ==
    sessions[CHOOSE k \in 1..Len(sessions) :
                /\ Get(sessions[k].session, "containerId") = selectedId
                /\ \A j \in 1..(k - 1) : Get(sessions[j].session, "containerId") # selectedId]

\* The steps of a run one of which may fail.
FailPoints ==
    {"none", "webServer.start", "openInBrowser", "container.start", "git.remote", "git.add",
     "git.commit", "git.branch", "git.push", "fs.copy", "fs.remove", "store.write", "store.rename"}

\* The answers and the failing step of a run, with the clock's reading.
At(env, n) ==
    [action |-> env.action, confirm |-> env.confirm, failAt |-> env.failAt, now |-> n]

\* The steps on the path of each choice.
StepsOf(action) ==
    CASE action = "push" -> {"git.remote", "git.add", "git.commit", "git.branch", "git.push",
                             "store.write", "store.rename"}
      [] action = "copy" -> {"fs.copy", "store.write", "store.rename"}
      [] action = "discard" -> {"fs.remove", "store.write", "store.rename"}
      [] action = "show" -> {"webServer.start", "openInBrowser", "container.start"}

\* The operator's answers and the failing step of one run.  The confirmation
\* is only asked of a discard; a failing step is paired with one choice.
Envs ==
    {e \in [action : Choices, confirm : BOOLEAN, failAt : FailPoints] :
        /\ e.confirm \/ (e.action = "discard" /\ e.failAt = "none")
        /\ e.failAt \in StepsOf(e.action) \cup {"none"}}

(***************************************************************************)
(* The recover command over the sessions an interrupted run left behind.   *)
(***************************************************************************)
\* The store contents an interrupted run leaves: no file, or a list of up to as
\* many records as there are containers, in any order; the same container may
\* be recorded twice.
StaleLists == UNION {[1..n -> {StaleRecord(id) : id \in Ids}] : n \in 0..Cardinality(Ids)}

StaleStores == {Missing} \cup {File(Stringify(l)) : l \in StaleLists}

\* The shadow repos an interrupted run leaves.
StaleShadows ==
    {NoShadow, ShadowRepo("none", "dirty"), ShadowRepo("lookalike", "dirty"),
     ShadowRepo("origin", "dirty")}

\* A record of the store names the container.
Recorded(fs, id) == \E i \in 1..Len(Sessions(fs)) : Get(Sessions(fs)[i], "containerId") = id

\* What an interruption leaves: the store, and the containers and shadow repos
\* of the sessions recorded in it.
InitRecover ==
    /\ files \in {[NoFiles EXCEPT ![storePath] = c] : c \in StaleStores}
    /\ containers \in [Ids -> {"running", "stopped", "gone"}]
    /\ shadows \in [ShadowPaths -> StaleShadows]
    /\ \A id \in Ids : Recorded(files, id) \/ (containers[id] = "gone" /\ ~shadows[ShadowPath(id)].exists)
    /\ copies = [p \in ShadowPaths |-> "none"]
    /\ rec = NoRun
    /\ lastOp = NoOp
    /\ replaced = NoArg
    /\ added = <<>>
    /\ loaded = NotLoaded
    /\ InitWriters
    /\ InitNoSandbox

\* What a call of recoverSession leaves behind.
Ran(cmd, scanned, session, env, run) ==
    /\ files' = run.w.fs
    /\ containers' = run.w.containers
    /\ shadows' = run.w.shadows
    /\ copies' = run.w.copies
    /\ rec' = [n |-> rec.n + 1, cmd |-> cmd, scanned |-> scanned, session |-> session,
               choice |-> IF run.offered = {} THEN "" ELSE env.action,
               effects |-> run.effects, offered |-> run.offered, result |-> run.result,
               storeFailed |-> run.storeFailed, report |-> run.report,
               exit |-> IF cmd = "recover" /\ run.result = "raised" THEN "exit 1" ELSE "none",
               confirm |-> "prompt.confirm" \in {run.effects[i] : i \in 1..Len(run.effects)}
                           /\ env.confirm,
               flags |-> {}]

\* A call of recoverSession for a record of the store, with the container
\* state and the shadow presence the record has now.
RecoverSessionCall ==
    /\ rec.n < MaxRuns
    /\ \E i \in 1..Len(Sessions(files)), env \in Envs :
           \E session \in {Recoverable(Sessions(files)[i], containers, shadows)} :
               \E run \in {recoverSession(World(files, containers, shadows, copies), session,
                                           At(env, rec.n + 1))} :
                   Ran("recoverSession", <<>>, session, env, run)
    /\ UNCHANGED <<storeHist, loaded, writeVars, orchVars, branchVars>>

\* The world a step leaves.
Left(w) ==
    /\ files' = w.fs
    /\ containers' = w.containers
    /\ shadows' = w.shadows
    /\ copies' = w.copies

\* The records of the store that are not recoverable.
NotRecoverable(w) ==
    {Get(Sessions(w.fs)[i], "containerId") : i \in
        {k \in 1..Len(Sessions(w.fs)) :
            LET r == Recoverable(Sessions(w.fs)[k], w.containers, w.shadows) IN
            r.containerState = "gone" /\ ~r.shadowExists}}

\* The scan retiring a record it finds unrecoverable.
listSessionsPruning(w) ==
    IF NotRecoverable(w) = {} THEN w
    ELSE [w EXCEPT !.fs = removeSession(w.fs, CHOOSE id \in NotRecoverable(w) : TRUE, "none").fs]

\* What the scan and the listing of the recover command leave of the world
\* they read: load reads the store file, inspect and pathExists ask the
\* container runtime and the file system, the rest is printing.
listSessions(w) == w

\* The action of the recover command.
RecoverCommand ==
    /\ rec.n < MaxRuns
    /\ UNCHANGED <<storeHist, loaded, writeVars, orchVars, branchVars>>
    /\ \E sessions \in {getRecoverableSessions(files, containers, shadows)} :
           IF Len(sessions) = 0
           THEN /\ rec' = [NoRun EXCEPT !.n = rec.n + 1, !.cmd = "recover",
                                        !.report = <<"No recoverable sessions found.">>]
                /\ Left(listSessions(World(files, containers, shadows, copies)))
           ELSE \E list \in BOOLEAN :
                IF list
                THEN /\ rec' = [NoRun EXCEPT !.n = rec.n + 1, !.cmd = "recover",
                                             !.scanned = sessions,
                                             !.report = <<"Found recoverable session(s)">>]
                     /\ Left(listSessions(World(files, containers, shadows, copies)))
                ELSE \E k \in 1..Len(sessions), env \in Envs :
                         \E session \in {Find(sessions, Get(sessions[k].session, "containerId"))} :
                             \E run \in {recoverSession(World(files, containers, shadows, copies),
                                                         session, At(env, rec.n + 1))} :
                                 Ran("recover", sessions, session, env, run)

NextRecover == RecoverSessionCall \/ RecoverCommand

SpecRecover == InitRecover /\ [][NextRecover]_vars

\* C8: a failure of the store's file write or rename during a run of the
\* recovery engine reaches the caller of recoverSession: the run ends raising.
C8_StoreFailureReachesCaller == rec.storeFailed => rec.result = "raised"

\* The number of entries of a sequence equal to a value.
Count(seq, x) == Cardinality({i \in 1..Len(seq) : seq[i] = x})

\* The live facts about a record: the state of its container in the runtime,
\* the presence of its shadow repo directory on disk.
LiveState(session) == containers[Get(session, "containerId")]

ShadowPresent(session) == shadows[Get(session, "shadowRepoPath")].exists

Range(seq) == {seq[i] : i \in 1..Len(seq)}

\* One sequence begins another.
IsPrefix(a, b) == Len(a) <= Len(b) /\ \A i \in 1..Len(a) : a[i] = b[i]

\* Reattach: start the web UI, open it, mark the record active.
ReattachSteps == <<"webServer.start", "openInBrowser", "store.updateSession">>

\* The steps behind each choice of the gone-with-shadow prompt.
ChoiceSteps(choice) ==
    CASE choice = "push" -> <<"git.remote", "git.add", "git.commit", "git.branch", "git.push",
                              "store.removeSession">>
      [] choice = "copy" -> <<"prompt.destPath", "fs.copy", "store.removeSession">>
      [] choice = "show" -> <<>>
      [] choice = "discard" -> <<"prompt.confirm", "fs.remove", "store.removeSession">>

\* C10: a run of recoverSession does what the decision table gives for the
\* class of its session, and nothing else.  Running: reattach, whether or not
\* a shadow repo exists.  Stopped: start the container, then reattach, whether
\* or not a shadow repo exists.  Gone with shadow: offer push, copy, show and
\* discard, and take steps of the chosen one only.  Gone without shadow:
\* remove the record, touch nothing else.  A run cut short by a failing step
\* has taken a prefix of these steps.
C10_DecisionTable ==
    [][rec'.n # rec.n /\ rec'.session # NoSession =>
        LET run == rec'
            id == Get(run.session.session, "containerId")
            class == <<run.session.containerState, run.session.shadowExists>>
            expected == IF class[1] = "running" THEN ReattachSteps
                        ELSE IF class[1] = "stopped" THEN <<"container.start">> \o ReattachSteps
                        ELSE IF class[2] THEN <<"prompt.action">> \o ChoiceSteps(run.choice)
                        ELSE <<"store.removeSession">> IN
        /\ class[1] = LiveState(run.session.session)
        /\ class[2] = ShadowPresent(run.session.session)
        /\ IsPrefix(run.effects, expected)
        /\ run.offered = IF class = <<"gone", TRUE>> THEN Choices ELSE {}
        /\ class[1] # "gone" =>
              /\ run.result # "raised" => run.effects = expected /\ run.result = "waiting"
              /\ shadows' = shadows /\ copies' = copies
              /\ \A c \in Ids \ {id} : containers'[c] = containers[c]
              /\ containers'[id] =
                    IF class[1] = "stopped" /\ Len(run.effects) > 1 THEN "running" ELSE containers[id]
        /\ class = <<"gone", TRUE>> => run.choice \in Choices /\ containers' = containers
        /\ class = <<"gone", FALSE>> =>
              /\ run.effects = expected
              /\ containers' = containers /\ shadows' = shadows /\ copies' = copies
              /\ run.result # "raised" => Sessions(files') = Filter(Sessions(files), id)]_vars

\* C10's case: a stopped container whose shadow repo exists was started and
\* reattached, and no choice was offered.
C10_Witness ==
    /\ rec.session.containerState = "stopped"
    /\ rec.session.shadowExists
    /\ rec.effects = <<"container.start">> \o ReattachSteps
    /\ rec.offered = {}
    /\ rec.result = "waiting"
    /\ LiveState(rec.session.session) = "running"

\* A record whose container is gone and whose shadow repo is absent.
Dangling(session) == LiveState(session) = "gone" /\ ~ShadowPresent(session)

C12_RunningFrame ==
    [][/\ rec'.n # rec.n
       /\ rec'.session.containerState = "running"
       /\ rec'.result = "waiting"
       =>
        LET old == Sessions(files)
            new == Sessions(files')
            idx == FindIndex(old, Get(rec'.session.session, "containerId")) IN
        /\ idx >= 1
        /\ Len(new) = Len(old)
        /\ new[idx]["status"] = "active"
        /\ new[idx]["lastActivityTime"] = Recovered(rec'.n)
        /\ new[idx]["lastActivityTime"] # old[idx]["lastActivityTime"]
        /\ \A k \in AllKeys \ {"status", "lastActivityTime"} : Get(new[idx], k) = Get(old[idx], k)
        /\ \A j \in 1..Len(old) : j # idx => new[j] = old[j]
        /\ shadows' = shadows
        /\ copies' = copies
        /\ \A i \in 1..Len(rec'.effects) : rec'.effects[i] \in Range(ReattachSteps)]_vars

\* C12's case: a running session whose shadow repo exists was reattached; its
\* record is active and carries the time of the run.
C12_Witness ==
    /\ rec.session.containerState = "running"
    /\ rec.session.shadowExists
    /\ rec.result = "waiting"
    /\ ShadowPresent(rec.session.session)
    /\ \E j \in 1..Len(Sessions(files)) :
          /\ Sessions(files)[j]["containerId"] = rec.session.session["containerId"]
          /\ Sessions(files)[j]["status"] = "active"
          /\ Sessions(files)[j]["lastActivityTime"] = Recovered(rec.n)

\* The position of a step in the calls of a run, 0 when it was not made.
StepAt(effects, step) ==
    IF step \in Range(effects) THEN CHOOSE i \in 1..Len(effects) : effects[i] = step ELSE 0

\* C13: in the gone-with-shadow branch, choosing show, or choosing discard and
\* declining the confirmation, leaves every shadow repo and the store's files
\* as they were; a discard changes the shadow repo or the store only after the
\* operator was asked and confirmed; a confirmed discard none of whose steps
\* fails leaves neither the shadow repo directory nor a record of the session.
C13_DiscardOnlyConfirmed ==
    [][rec'.n # rec.n /\ rec'.offered = Choices /\ rec'.choice \in {"show", "discard"} =>
        LET run == rec'
            id == Get(run.session.session, "containerId")
            path == Get(run.session.session, "shadowRepoPath") IN
        /\ run.choice = "show" \/ ~run.confirm =>
              /\ shadows' = shadows
              /\ files' = files
              /\ "fs.remove" \notin Range(run.effects)
              /\ "store.removeSession" \notin Range(run.effects)
        /\ shadows' # shadows \/ Sessions(files') # Sessions(files) =>
              /\ run.confirm
              /\ StepAt(run.effects, "prompt.confirm") >= 1
              /\ StepAt(run.effects, "prompt.confirm") < StepAt(run.effects, "fs.remove")
        /\ run.choice = "discard" /\ run.confirm /\ run.result = "returned" =>
              /\ ~shadows'[path].exists
              /\ Matching(Sessions(files'), id) = {}
              /\ Sessions(files') = Filter(Sessions(files), id)]_vars

\* C13's case: the operator chose discard and declined; the shadow repo and
\* the record are there.
C13_Witness ==
    /\ rec.choice = "discard"
    /\ ~rec.confirm
    /\ rec.effects = <<"prompt.action", "prompt.confirm">>
    /\ ShadowPresent(rec.session.session)
    /\ Matching(Sessions(files), rec.session.session["containerId"]) # {}

\* C14: a push chosen for a shadow repo that has no remote named origin,
\* whatever else `git remote -v` prints for it, runs no stage, commit or push
\* step, reports, and leaves the shadow repos and the store's records as they
\* were.
C14_PushAbortsWithoutOrigin ==
    [][/\ rec'.n # rec.n
       /\ rec'.choice = "push"
       /\ shadows[Get(rec'.session.session, "shadowRepoPath")].remote # "origin"
       =>
        /\ Range(rec'.effects) \cap {"git.add", "git.commit", "git.push"} = {}
        /\ rec'.report # <<>>
        /\ rec'.result = "returned"
        /\ shadows' = shadows
        /\ Sessions(files') = Sessions(files)]_vars

\* C15: a push for a shadow repo that has the remote origin, one of whose
\* steps after the origin check fails (staging, branch lookup, the push),
\* leaves the shadow repos exactly as they were before the action and the
\* store's records as they were.
C15_FailedPushLeavesShadow ==
    [][/\ rec'.n # rec.n
       /\ rec'.choice = "push"
       /\ shadows[Get(rec'.session.session, "shadowRepoPath")].remote = "origin"
       /\ "git.add" \in Range(rec'.effects)
       /\ "Push failed" \in Range(rec'.report)
       /\ ~rec'.storeFailed
       =>
        /\ shadows' = shadows
        /\ Sessions(files') = Sessions(files)]_vars

\* C16: a push, copy or discard one of whose steps fails (a git command, the
\* copy, the removal of the directory; the store's own write is C8's case)
\* ends with recoverSession returning, not raising, and with the shadow repos
\* and the store's records as they were before.
C16_SubActionFailureLocal ==
    [][/\ rec'.n # rec.n
       /\ rec'.choice \in {"push", "copy", "discard"}
       /\ ~rec'.storeFailed
       /\ Len(rec'.effects) < 1 + Len(ChoiceSteps(rec'.choice))
          \/ "Push failed" \in Range(rec'.report)
       /\ ~(rec'.choice = "discard" /\ ~rec'.confirm)
       /\ "No remote 'origin' configured in shadow repo." \notin Range(rec'.report)
       =>
        /\ rec'.result = "returned"
        /\ rec'.exit # "exit 1"
        /\ shadows' = shadows
        /\ Sessions(files') = Sessions(files)]_vars

(***************************************************************************)
(* The clean and purge commands, and all the commands together.            *)
(***************************************************************************)
\* The name of a shadow repo's directory under SHADOW_BASE_PATH.
ShadowEntry(path) == CHOOSE e \in {ShortId(id) : id \in Ids} : "shadows/" \o e = path

\* The orders docker.listContainers can list the containers in.
Listings == {l \in [1..Cardinality(Ids) -> Ids] : \A i, j \in DOMAIN l : i # j => l[i] # l[j]}

\* The call on a container that fails, for each container.
ContainerFails == [Ids -> {"none", "stop", "remove"}]

\* container.stop() when the listing says running, then container.remove():
\* the state the container is left in, and whether one of the calls threw.
stopAndRemove(state, stop, fails) ==
    IF state = "running" /\ stop /\ fails = "stop" THEN [state |-> "running", threw |-> TRUE]
    ELSE IF fails = "remove"
    THEN [state |-> IF state = "running" /\ stop THEN "stopped" ELSE state, threw |-> TRUE]
    ELSE [state |-> "gone", threw |-> FALSE]

\* clean: the loop over targetContainers, from the i-th listed container on:
\* container.remove() for every container that is not running, and with
\* --force container.stop() and container.remove() for the running ones. The
\* first call that throws ends the loop.
RECURSIVE cleanContainers(_, _, _, _, _)
cleanContainers(cs, force, listing, i, fails) ==
    IF i > Len(listing) THEN [containers |-> cs, raised |-> FALSE]
    ELSE LET id == listing[i] IN
         IF cs[id] = "stopped" \/ (force /\ cs[id] = "running")
         THEN LET r == stopAndRemove(cs[id], force, fails[id]) IN
              IF r.threw THEN [containers |-> [cs EXCEPT ![id] = r.state], raised |-> TRUE]
              ELSE cleanContainers([cs EXCEPT ![id] = r.state], force, listing, i + 1, fails)
         ELSE cleanContainers(cs, force, listing, i + 1, fails)

\* clean: the loop over the records load() returned, from the i-th on:
\* store.removeSession for each whose container.inspect() throws.
RECURSIVE cleanRecords(_, _, _, _, _)
cleanRecords(fs, cs, sessions, i, fail) ==
    IF i > Len(sessions) THEN [fs |-> fs, raised |-> FALSE]
    ELSE IF inspect(cs, Get(sessions[i], "containerId")).threw
    THEN LET r == removeSession(fs, Get(sessions[i], "containerId"), fail) IN
         IF r.raised THEN [fs |-> r.fs, raised |-> TRUE]
         ELSE cleanRecords(r.fs, cs, sessions, i + 1, fail)
    ELSE cleanRecords(fs, cs, sessions, i + 1, fail)

\* new Set(activeSessions.map((s) => s.sessionId))
activeSessionIds(fs) == {Get(Sessions(fs)[i], "sessionId") : i \in 1..Len(Sessions(fs))}

\* A variant of cleanShadows that removes every directory under SHADOW_BASE_PATH.
cleanShadowsAll(shs, fs) == [p \in DOMAIN shs |-> NoShadow]

\* clean --shadows: fsExtra.remove for every directory under SHADOW_BASE_PATH
\* whose name is the sessionId of no record.
cleanShadows(shs, fs) ==
    [p \in DOMAIN shs |-> IF shs[p].exists /\ ShadowEntry(p) \notin activeSessionIds(fs)
                          THEN NoShadow ELSE shs[p]]

\* What a command leaves: the world, whether it threw into its catch block,
\* whether a write of the store was what threw, and what it printed.
Outcome(w, raised, storeFailed, report) ==
    [w |-> w, raised |-> raised, storeFailed |-> storeFailed, report |-> report]

\* spinner.succeed(`Cleaned up ${parts.join(", ")}`), or spinner.info when
\* every count is 0.
cleanReport(removed, sessionsRemoved, shadowsRemoved) ==
    LET parts == (IF removed THEN <<"container(s)">> ELSE <<>>)
                 \o (IF sessionsRemoved THEN <<"session record(s)">> ELSE <<>>)
                 \o (IF shadowsRemoved THEN <<"shadow repo(s)">> ELSE <<>>) IN
    IF parts # <<>> THEN <<"Cleaned up">> \o parts ELSE <<"Nothing to clean up.">>

\* The action of the clean command; opts holds the flags, the listing and the
\* failing calls.
cleanCommand(w, opts) ==
    LET c == cleanContainers(w.containers, opts.force, opts.listing, 1, opts.fails)
        sessions == Sessions(w.fs)
        r == cleanRecords(w.fs, c.containers, sessions, 1, StoreFail(opts))
        w1 == [w EXCEPT !.containers = c.containers]
        w2 == [w1 EXCEPT !.fs = r.fs]
        left == cleanShadows(w.shadows, r.fs)
        removed == c.containers # w.containers
        sessionsRemoved == \E i \in 1..Len(sessions) :
                               inspect(c.containers, Get(sessions[i], "containerId")).threw IN
    IF c.raised THEN Outcome(w1, TRUE, FALSE, <<"Failed:">>)
    ELSE IF r.raised THEN Outcome(w2, TRUE, TRUE, <<"Failed:">>)
    ELSE IF opts.shadows /\ \E p \in DOMAIN w.shadows : w.shadows[p].exists
    THEN IF opts.failAt = "fs.remove" /\ left # w.shadows
         THEN Outcome(w2, TRUE, FALSE, <<"Failed:">>)
         ELSE Outcome([w2 EXCEPT !.shadows = left], FALSE, FALSE,
                      cleanReport(removed, sessionsRemoved, left # w.shadows))
    ELSE Outcome(w2, FALSE, FALSE, cleanReport(removed, sessionsRemoved, FALSE))

\* purge: the loop over the containers, each in its own try block.
purgeContainers(cs, fails) ==
    [id \in DOMAIN cs |-> IF cs[id] = "gone" THEN "gone"
                          ELSE stopAndRemove(cs[id], TRUE, fails[id]).state]

\* A variant of purgeCommand whose first failing container ends the command.
purgeCommandStopsAtFailure(w, opts) ==
    LET cs == purgeContainers(w.containers, opts.fails)
        r == clearAll(w.fs, StoreFail(opts))
        w1 == [w EXCEPT !.containers = cs] IN
    IF \A id \in DOMAIN w.containers : w.containers[id] = "gone"
    THEN Outcome(w, FALSE, FALSE, <<"No Claude Sandbox containers found.">>)
    ELSE IF ~opts.yes /\ ~opts.confirm
    THEN Outcome(w, FALSE, FALSE, <<"Purge cancelled.">>)
    ELSE IF \E id \in DOMAIN cs : cs[id] # "gone"
    THEN Outcome(w1, TRUE, FALSE, <<"Failed to remove", "Purge failed:">>)
    ELSE IF r.raised THEN Outcome([w1 EXCEPT !.fs = r.fs], TRUE, TRUE, <<"Purge failed:">>)
    ELSE Outcome([w1 EXCEPT !.fs = r.fs, !.shadows = [p \in DOMAIN w.shadows |-> NoShadow]],
                 FALSE, FALSE, <<"Purged all">>)

\* The action of the purge command; opts holds the flag, the answer and the
\* failing calls.
purgeCommand(w, opts) ==
    LET cs == purgeContainers(w.containers, opts.fails)
        warned == IF \E id \in DOMAIN cs : cs[id] # "gone" THEN <<"Failed to remove">> ELSE <<>>
        r == clearAll(w.fs, StoreFail(opts))
        w1 == [w EXCEPT !.containers = cs]
        w2 == [w1 EXCEPT !.fs = r.fs] IN
    IF \A id \in DOMAIN w.containers : w.containers[id] = "gone"
    THEN Outcome(w, FALSE, FALSE, <<"No Claude Sandbox containers found.">>)
    ELSE IF ~opts.yes /\ ~opts.confirm
    THEN Outcome(w, FALSE, FALSE, <<"Purge cancelled.">>)
    ELSE IF r.raised THEN Outcome(w2, TRUE, TRUE, warned \o <<"Purge failed:">>)
    ELSE IF opts.failAt = "fs.remove" /\ \E p \in DOMAIN w.shadows : w.shadows[p].exists
    THEN Outcome(w2, TRUE, FALSE, warned \o <<"Purge failed:">>)
    ELSE Outcome([w2 EXCEPT !.shadows = [p \in DOMAIN w.shadows |-> NoShadow]], FALSE, FALSE,
                 warned \o (IF warned = <<>> THEN <<"Purged all">> ELSE <<"Purged N of M">>))

CommandFailPoints == {"none", "store.write", "store.rename", "fs.remove"}

\* The options of the clean command and what its calls meet.
CleanOptions ==
    [force : BOOLEAN, shadows : BOOLEAN, failAt : CommandFailPoints, fails : ContainerFails,
     listing : Listings]

\* The options of the purge command, the operator's answer and what its calls meet.
PurgeOptions ==
    [yes : BOOLEAN, confirm : BOOLEAN, failAt : CommandFailPoints, fails : ContainerFails]

\* The flags given on the command line.
Flags(opts) == {f \in {"force", "shadows", "yes"} : f \in DOMAIN opts /\ opts[f]}

\* What a command other than recover leaves behind.
Done(cmd, opts, out) ==
    /\ files' = out.w.fs
    /\ containers' = out.w.containers
    /\ shadows' = out.w.shadows
    /\ copies' = out.w.copies
    /\ rec' = [NoRun EXCEPT !.n = rec.n + 1, !.cmd = cmd, !.flags = Flags(opts),
                            !.confirm = "confirm" \in DOMAIN opts /\ opts.confirm,
                            !.result = IF out.raised THEN "raised" ELSE "returned",
                            !.storeFailed = out.storeFailed,
                            !.report = out.report,
                            !.exit = IF out.raised THEN "exit 1" ELSE "none"]

CleanCommand ==
    /\ rec.n < MaxRuns
    /\ \E opts \in CleanOptions :
          \E out \in {cleanCommand(World(files, containers, shadows, copies), opts)} :
              Done("clean", opts, out)
    /\ UNCHANGED <<storeHist, loaded, writeVars, orchVars, branchVars>>

PurgeCommand ==
    /\ rec.n < MaxRuns
    /\ \E opts \in PurgeOptions :
          \E out \in {purgeCommand(World(files, containers, shadows, copies), opts)} :
              Done("purge", opts, out)
    /\ UNCHANGED <<storeHist, loaded, writeVars, orchVars, branchVars>>

\* What earlier runs can leave: as InitRecover, and also containers and
\* shadow repos that no record of the store names. clean and purge read of a
\* shadow repo only whether its directory is there.
InitLeftovers ==
    /\ files \in {[NoFiles EXCEPT ![storePath] = c] : c \in StaleStores}
    /\ containers \in [Ids -> {"running", "stopped", "gone"}]
    /\ shadows \in [ShadowPaths -> {NoShadow, ShadowRepo("origin", "dirty")}]
    /\ copies = [p \in ShadowPaths |-> "none"]
    /\ rec = NoRun
    /\ lastOp = NoOp
    /\ replaced = NoArg
    /\ added = <<>>
    /\ loaded = NotLoaded
    /\ InitWriters
    /\ InitNoSandbox

NextHousekeeping == CleanCommand \/ PurgeCommand

SpecHousekeeping == InitLeftovers /\ [][NextHousekeeping]_vars

NextCommands == RecoverSessionCall \/ RecoverCommand \/ CleanCommand \/ PurgeCommand

SpecCommands == InitRecover /\ [][NextCommands]_vars

\* The containers the records of a list name.
RecordedIds(items) == {Get(items[i], "containerId") : i \in 1..Len(items)}

\* C17: whenever a step leaves a container without the record it had, the
\* step is a purge, or a recovery or a clean that found the session
\* unrecoverable (container gone, shadow repo absent), or a recovery of that
\* session that retired it (a push that went through, a completed copy, a
\* confirmed discard); and a clean step never takes the record of a session
\* whose shadow repo exists.
C17_RecordLeavesOnlyByRetire ==
    [][\A id \in RecordedIds(Sessions(files)) \ RecordedIds(Sessions(files')) :
        LET run == rec'
            mine == run.session # NoSession /\ Get(run.session.session, "containerId") = id
            path == ShadowPath(id) IN
        /\ \/ run.cmd = "purge"
           \/ /\ mine
              /\ run.session.containerState = "gone" /\ ~run.session.shadowExists
           \/ /\ run.cmd = "clean"
              /\ containers'[id] = "gone" /\ ~shadows[path].exists
           \/ /\ mine
              /\ run.choice = "push" /\ shadows'[path].pushed
           \/ /\ mine
              /\ run.choice = "copy" /\ copies'[path] = "complete"
           \/ /\ mine
              /\ run.choice = "discard" /\ run.confirm
        /\ run.cmd = "clean" => ~shadows[path].exists]_vars

Exited(code) == [state |-> "exited", code |-> code]

\* The container and the git monitor are started; run goes on to the web UI
\* or to the terminal.
Starting == [state |-> "starting", code |-> "none"]

Attached == [state |-> "attached", code |-> "none"]

\* The web UI is up and run awaits a promise that never settles.
Serving == [state |-> "serving", code |-> "none"]

\* run's catch logged and rethrew, and the runtime did not end the process.
Failed == [state |-> "failed", code |-> "none"]

\* The calls run awaits up to the start of the git monitor.
RunSteps ==
    <<"verifyGitRepo", "git.branchLocal", "resolveBranch", "credentialManager.discover",
      "containerManager.start", "gitMonitor.start">>

\* The calls run awaits in its web UI branch.
WebSteps == <<"webServer.start", "webServer.openInBrowser">>

\* The calls attachToContainer awaits before it touches the local terminal.
AttachSteps == <<"container.exec", "exec.start", "exec.resize">>

CommitActions == {"nothing", "push", "push-pr", "exit"}

\* The count of calls after one more call of name.
Called(cs, name) == IF name \in CallNames THEN [cs EXCEPT ![name] = @ + 1] ELSE cs

\* The invocation t did the steps done and goes to at.
Moved(t, at, action, done) ==
    [tasks EXCEPT ![t] = Task(at, action, @.steps \o done)]

\* The invocation t goes on to await the call name.
Awaits(t, name, action) ==
    /\ tasks' = Moved(t, name, action, <<name>>)
    /\ calls' = Called(calls, name)
    /\ UNCHANGED proc

\* The invocation t returns to the event loop.
Returns(t, cs, done) ==
    /\ tasks' = Moved(t, "returned", tasks[t].action, done)
    /\ calls' = cs
    /\ UNCHANGED proc

\* The invocation t prints the warning of a caught failure and returns.
Warns(t, cs, done) ==
    /\ tasks' = Moved(t, "warned", tasks[t].action, done \o <<"warning">>)
    /\ calls' = cs
    /\ UNCHANGED proc

\* process.exit(0) in the invocation t.
Exits(t) ==
    /\ tasks' = Moved(t, "exited", tasks[t].action, <<"process.exit(0)">>)
    /\ proc' = Exited("0")
    /\ UNCHANGED calls

\* A promise nobody handles rejects: the runtime terminates the process with
\* code 1 or only warns, by its version and flags.
UnhandledRejection(alive) == proc' \in {alive, Exited("1")}

\* The call the invocation t awaits rejects; no listener has a try around it.
Rejects(t) ==
    /\ tasks' = Moved(t, "rejected", tasks[t].action, <<>>)
    /\ UnhandledRejection(proc)
    /\ UNCHANGED calls

\* cleanup() up to its first await, after the steps done before it.
cleanup(t, action, done) ==
    /\ tasks' = Moved(t, "gitMonitor.stop", action, done \o <<"gitMonitor.stop">>)
    /\ calls' = Called(calls, "gitMonitor.stop")
    /\ UNCHANGED proc

\* cleanupResumed leaving for process.exit(0) once the git monitor stopped.
cleanupResumedExitsEarly(t, webServer) ==
    CASE tasks[t].at = "gitMonitor.stop" -> Exits(t)
      [] tasks[t].at = "containerManager.cleanup" ->
            IF webServer THEN Awaits(t, "webServer.stop", tasks[t].action) ELSE Exits(t)
      [] tasks[t].at = "webServer.stop" -> Exits(t)

\* cleanup() and what follows it in its three callers, from the await that
\* resolved; webServer is this.webServer, which only the web UI branch sets.
cleanupResumed(t, webServer) ==
    CASE tasks[t].at = "gitMonitor.stop" -> Awaits(t, "containerManager.cleanup", tasks[t].action)
      [] tasks[t].at = "containerManager.cleanup" ->
            IF webServer THEN Awaits(t, "webServer.stop", tasks[t].action) ELSE Exits(t)
      [] tasks[t].at = "webServer.stop" -> Exits(t)

CleanupAwaits == {"gitMonitor.stop", "containerManager.cleanup", "webServer.stop"}

\* pushResumed with the failure of gh pr create left uncaught.
pushResumedPrUncaught(t, ghFails) ==
    CASE tasks[t].at = "git.branchLocal" -> Awaits(t, "git.push", tasks[t].action)
      [] tasks[t].at = "git.push" ->
            IF tasks[t].action = "push-pr"
            THEN IF ghFails
                 THEN /\ tasks' = Moved(t, "rejected", tasks[t].action, <<"gh pr create">>)
                      /\ calls' = Called(calls, "gh pr create")
                      /\ UnhandledRejection(proc)
                 ELSE Returns(t, Called(calls, "gh pr create"), <<"gh pr create">>)
            ELSE Returns(t, calls, <<>>)

\* pushBranch and pushBranchAndCreatePR, from the await that resolved; ghFails
\* is whether the synchronous gh pr create throws, which is caught and warned.
pushResumed(t, ghFails) ==
    CASE tasks[t].at = "git.branchLocal" -> Awaits(t, "git.push", tasks[t].action)
      [] tasks[t].at = "git.push" ->
            IF tasks[t].action = "push-pr"
            THEN IF ghFails THEN Warns(t, Called(calls, "gh pr create"), <<"gh pr create">>)
                            ELSE Returns(t, Called(calls, "gh pr create"), <<"gh pr create">>)
            ELSE Returns(t, calls, <<>>)

PushAwaits == {"git.branchLocal", "git.push"}

\* handleCommit, from the await that resolved; action is what askCommitAction
\* resolved with.
handleCommitResumed(t, action, ghFails, webServer) ==
    CASE tasks[t].at = "git.diff" -> Awaits(t, "askCommitAction", "")
      [] tasks[t].at = "askCommitAction" ->
            (CASE action = "nothing" -> Returns(t, calls, <<>>)
               [] action \in {"push", "push-pr"} -> Awaits(t, "git.branchLocal", action)
               [] action = "exit" -> cleanup(t, action, <<>>))
      [] tasks[t].at \in PushAwaits -> pushResumed(t, ghFails)
      [] tasks[t].at \in CleanupAwaits -> cleanupResumed(t, webServer)

CommitAwaits == {"git.diff", "askCommitAction"} \cup PushAwaits \cup CleanupAwaits

\* The k-th invocation of a listener runs after the ones before it began.
InOrder(kind, k) == IF k = 1 THEN TRUE ELSE tasks[<<kind, k - 1>>].at # "idle"

\* The synchronous steps of the two teardown listeners before cleanup.
TeardownSteps(kind, tty) ==
    <<"resize.off">> \o (IF tty THEN <<"setRawMode(false)">> ELSE <<>>)
        \o (IF kind = "end" THEN <<"stdin.pause">> ELSE <<>>)

\* run up to the start of the git monitor: a rejected step leaves run through
\* its catch, which logs and rethrows to a caller that handles nothing.
SandboxRun ==
    /\ proc.state = "new"
    /\ \E failAt \in {"none"} \cup Range(RunSteps) :
        /\ sandbox' = [sandbox EXCEPT
                          !.container = failAt = "none"
                              \/ StepAt(RunSteps, failAt) > StepAt(RunSteps, "containerManager.start"),
                          !.monitor = failAt = "none"]
        /\ IF failAt = "none" THEN proc' = Starting ELSE UnhandledRejection(Failed)
    /\ UNCHANGED <<isTTY, rawMode, tasks, calls>>
    /\ UNCHANGED <<files, storeHist, loaded, writeVars, recVars, branchVars>>

\* The web UI branch of run.
LaunchWebUI ==
    /\ proc.state = "starting"
    /\ sandbox.useWebUI
    /\ sandbox' = [sandbox EXCEPT !.webServer = TRUE]
    /\ \E failAt \in {"none"} \cup Range(WebSteps) :
        IF failAt = "none" THEN proc' = Serving ELSE UnhandledRejection(Failed)
    /\ UNCHANGED <<isTTY, rawMode, tasks, calls>>
    /\ UNCHANGED <<files, storeHist, loaded, writeVars, recVars, branchVars>>

\* attachToContainer, the terminal branch of run.
AttachToContainer ==
    /\ proc.state = "starting"
    /\ ~sandbox.useWebUI
    /\ \E failAt \in {"none"} \cup Range(AttachSteps) :
        IF failAt = "none"
        THEN /\ rawMode' = isTTY
             /\ proc' = Attached
        ELSE /\ UnhandledRejection(Failed)
             /\ UNCHANGED rawMode
    /\ UNCHANGED <<isTTY, sandbox, tasks, calls>>
    /\ UNCHANGED <<files, storeHist, loaded, writeVars, recVars, branchVars>>

\* The stream's "end" listener up to its first await.
StreamEnd ==
    /\ proc.state = "attached"
    /\ tasks[<<"end", 1>>].at = "idle"
    /\ rawMode' = IF isTTY THEN FALSE ELSE rawMode
    /\ cleanup(<<"end", 1>>, "", TeardownSteps("end", isTTY))
    /\ UNCHANGED <<isTTY, sandbox>>
    /\ UNCHANGED <<files, storeHist, loaded, writeVars, recVars, branchVars>>

\* The SIGINT listener up to its first await.
Sigint(k) ==
    /\ proc.state = "attached"
    /\ tasks[<<"sigint", k>>].at = "idle"
    /\ InOrder("sigint", k)
    /\ rawMode' = IF isTTY THEN FALSE ELSE rawMode
    /\ cleanup(<<"sigint", k>>, "", TeardownSteps("sigint", isTTY))
    /\ UNCHANGED <<isTTY, sandbox>>
    /\ UNCHANGED <<files, storeHist, loaded, writeVars, recVars, branchVars>>

\* SIGINT while no listener is registered for it: the default disposition ends
\* the process at once.
SigintDefault ==
    /\ proc.state \in {"new", "starting", "serving", "failed"}
    /\ proc' = Exited("SIGINT")
    /\ UNCHANGED <<isTTY, rawMode, sandbox, tasks, calls>>
    /\ UNCHANGED <<files, storeHist, loaded, writeVars, recVars, branchVars>>

\* A teardown listener goes on after an await, or the awaited call rejects.
TeardownResumes(t) ==
    /\ proc.state # "exited"
    /\ t[1] \in {"end", "sigint"}
    /\ tasks[t].at \in CleanupAwaits
    /\ \E ok \in BOOLEAN : IF ok THEN cleanupResumed(t, sandbox.webServer) ELSE Rejects(t)
    /\ UNCHANGED <<isTTY, rawMode, sandbox>>
    /\ UNCHANGED <<files, storeHist, loaded, writeVars, recVars, branchVars>>

\* The commit listener up to its first await; run registered it before it
\* started the git monitor.
Commit(k) ==
    /\ proc.state # "exited"
    /\ sandbox.monitor
    /\ tasks[<<"commit", k>>].at = "idle"
    /\ InOrder("commit", k)
    /\ Awaits(<<"commit", k>>, "git.diff", "")
    /\ UNCHANGED <<isTTY, rawMode, sandbox>>
    /\ UNCHANGED <<files, storeHist, loaded, writeVars, recVars, branchVars>>

\* What askCommitAction can resolve with, where it is the call awaited.
Answers(at) == IF at = "askCommitAction" THEN CommitActions ELSE {""}

\* Whether gh pr create throws, where the invocation is about to run it.
GhOutcomes(task) == IF task.at = "git.push" /\ task.action = "push-pr" THEN BOOLEAN ELSE {FALSE}

\* The commit listener goes on after an await, or the awaited call rejects.
CommitResumes(t) ==
    /\ proc.state # "exited"
    /\ t[1] = "commit"
    /\ tasks[t].at \in CommitAwaits
    /\ \E ok \in BOOLEAN, action \in Answers(tasks[t].at), ghFails \in GhOutcomes(tasks[t]) :
        IF ok THEN handleCommitResumed(t, action, ghFails, sandbox.webServer) ELSE Rejects(t)
    /\ UNCHANGED <<isTTY, rawMode, sandbox>>
    /\ UNCHANGED <<files, storeHist, loaded, writeVars, recVars, branchVars>>

\* The start command made a ClaudeSandbox and is about to call run.
InitAttach ==
    /\ proc = NotStarted
    /\ isTTY \in BOOLEAN
    /\ sandbox \in {[NoSandbox EXCEPT !.useWebUI = u] : u \in BOOLEAN}
    /\ config = NoConfig
    /\ containerConfig = NotPrepared
    /\ rawMode = FALSE
    /\ tasks = NoTasks
    /\ calls = NoCalls
    /\ files = NoFiles
    /\ lastOp = NoOp
    /\ replaced = NoArg
    /\ added = <<>>
    /\ loaded = NotLoaded
    /\ InitWriters
    /\ InitNoRecovery

NextAttach ==
    \/ SandboxRun
    \/ LaunchWebUI
    \/ AttachToContainer
    \/ StreamEnd
    \/ \E k \in 1..MaxSigints : Sigint(k)
    \/ SigintDefault
    \/ \E t \in TaskIds : TeardownResumes(t)
    \/ \E k \in 1..MaxCommits : Commit(k)
    \/ \E t \in TaskIds : CommitResumes(t)

SpecAttach == InitAttach /\ [][NextAttach]_vars

\* The invocations of the two teardown listeners that went into cleanup.
TeardownRuns == {t \in TaskIds : t[1] \in {"end", "sigint"} /\ tasks[t].at # "idle"}

\* C19: during terminal attachment the cleanup sequence runs exactly once per
\* process, whatever the interleaving of the stream ending and the interrupt
\* signal: one alone, one arriving while the other's cleanup is still awaiting,
\* or a repeated interrupt.
C19_CleanupOnce ==
    /\ Cardinality(TeardownRuns) <= 1
    /\ TeardownRuns # {} => calls["gitMonitor.stop"] = 1 /\ calls["containerManager.cleanup"] <= 1

\* C20: when the terminal attachment has put local input into raw mode, it is
\* back in normal mode at the moment the process terminates, on every exit path.
C20_RawModeRestoredAtExit == proc.state = "exited" => ~rawMode

\* The invocations of the commit listener that began and have not finished.
CommitsInHand == {t \in TaskIds : t[1] = "commit" /\ tasks[t].at \in CommitAwaits}

\* C21: commit notifications are handled strictly one at a time: from the start
\* of the handling of one (diff, prompt, chosen action) until it finishes the
\* handling of no other starts, so at most one operator prompt is outstanding.
C21_OneCommitAtATime == Cardinality(CommitsInHand) <= 1

\* Every collaborator cleanup stops has been asked to stop.
CleanupRan ==
    /\ calls["gitMonitor.stop"] >= 1
    /\ calls["containerManager.cleanup"] >= 1
    /\ sandbox.webServer => calls["webServer.stop"] >= 1

\* C22: once run has started a container, every way the process ends (stream
\* end, interrupt signal, the operator choosing to end the session, a failure
\* in a later start-up step) runs the cleanup sequence before the process
\* terminates, in terminal mode and in web UI mode alike.
C22_CleanupBeforeExit == proc.state = "exited" /\ sandbox.container => CleanupRan

\* The collaborator call cleanup makes after the call at, "" after the last.
NextStop(at, webServer) ==
    CASE at = "gitMonitor.stop" -> "containerManager.cleanup"
      [] at = "containerManager.cleanup" -> IF webServer THEN "webServer.stop" ELSE ""
      [] at = "webServer.stop" -> ""

\* C23: in the cleanup sequence a failure while stopping one collaborator does
\* not prevent the attempt to stop each of the remaining ones: whichever way
\* an awaited stop settles, the next collaborator's stop is called.
C23_CleanupBestEffort ==
    [][\A t \in TaskIds :
          (/\ tasks[t].at \in CleanupAwaits
           /\ tasks'[t] # tasks[t]
           /\ NextStop(tasks[t].at, sandbox.webServer) # "")
          => tasks'[t].at = NextStop(tasks[t].at, sandbox.webServer)]_vars

\* The commit reaction loop alone: run, the two ways it goes on, and the commit
\* listener, with no teardown listener invoked.
NextCommitLoop ==
    \/ SandboxRun
    \/ LaunchWebUI
    \/ AttachToContainer
    \/ SigintDefault
    \/ \E k \in 1..MaxCommits : Commit(k)
    \/ \E t \in TaskIds : CommitResumes(t)

SpecCommitLoop == InitAttach /\ [][NextCommitLoop]_vars

\* The calls of the cleanup sequence made so far.
CleanupCalls == [c \in CleanupAwaits |-> calls[c]]

\* C24: for the push-and-open-PR choice the push runs first and PR creation is
\* attempted only after the push succeeded; a failure of PR creation is a
\* warning only: the handler returns, the process and the git monitor go on,
\* no cleanup call is made and nothing is pushed or unpushed by it.
C24_PrAfterPushFailureWarns ==
    [][\A t \in TaskIds :
          tasks'[t] # tasks[t] /\ calls'["gh pr create"] # calls["gh pr create"]
          => /\ tasks[t].at = "git.push"
             /\ tasks[t].action = "push-pr"
             /\ StepAt(tasks'[t].steps, "git.push") + 1 = StepAt(tasks'[t].steps, "gh pr create")
             /\ tasks'[t].at \in {"returned", "warned"}
             /\ proc' = proc
             /\ sandbox' = sandbox
             /\ CleanupCalls' = CleanupCalls
             /\ calls'["git.push"] = calls["git.push"]]_vars

\* PR creation failed for the first commit and the second is being handled.
C24_Witness ==
    /\ tasks[<<"commit", 1>>].at = "warned"
    /\ tasks[<<"commit", 2>>].at = "askCommitAction"
    /\ proc.state \in {"attached", "serving"}

\* C25: in the commit reaction loop a failure of the remote push, for the push
\* choice or the push step of push-and-open-PR, is downgraded to a warning: it
\* does not leave the commit handler as an unhandled error and does not end the
\* session.
C25_PushFailureWarns ==
    [][\A t \in TaskIds :
          tasks[t].at = "git.push" /\ tasks'[t] # tasks[t]
          => tasks'[t].at \in {"returned", "warned"} /\ proc' = proc]_vars

(***************************************************************************)
(* Branch resolution in run.  A string is the sequence of its characters;  *)
(* an option that is not given is undefined.                               *)
(***************************************************************************)
\* The truthiness of an option: given and not the empty string.
Given(v) == v # Undefined /\ v # <<>>

\* What a template literal makes of a value.
Interpolated(v) == IF v = Undefined THEN <<"u", "n", "d", "e", "f", "i", "n", "e", "d">> ELSE v

\* The part of s before its first sep, all of s when it has none.
UpTo(s, sep) ==
    IF sep \in Range(s) THEN SubSeq(s, 1, StepAt(s, sep) - 1) ELSE s

RECURSIVE Split(_, _)
\* s.split(sep)
Split(s, sep) ==
    IF sep \in Range(s)
    THEN <<UpTo(s, sep)>> \o Split(SubSeq(s, StepAt(s, sep) + 1, Len(s)), sep)
    ELSE <<s>>

RECURSIVE Join(_, _)
\* parts.join(sep)
Join(parts, sep) ==
    IF parts = <<>> THEN <<>>
    ELSE IF Len(parts) = 1 THEN parts[1]
    ELSE parts[1] \o <<sep>> \o Join(Tail(parts), sep)

\* What gh pr view --json headRefName and JSON.parse give: the object's
\* headRefName, or a throw of either.
GhResults == {"throws", "no headRefName", "headRefName"}

PrBranch == <<"f", "i", "x">>

headRefName(gh) == IF gh = "headRefName" THEN PrBranch ELSE Undefined

\* What run hands to prepareContainer, or that it threw before.
Prepared(mode, branchName, prFetchRef, remoteFetchRef) ==
    [state |-> "prepared", mode |-> mode, branchName |-> branchName,
     prFetchRef |-> prFetchRef, remoteFetchRef |-> remoteFetchRef]

Thrown(mode) == [state |-> "thrown", mode |-> mode]

\* The PR branch of the resolution.
resolvePr(cfg) ==
    IF cfg.gh = "throws"
    THEN Thrown("pr")
    ELSE Prepared("pr", headRefName(cfg.gh),
                  <<"p", "u", "l", "l", "/">> \o cfg.prNumber \o <<"/", "h", "e", "a", "d", ":">>
                      \o Interpolated(headRefName(cfg.gh)),
                  <<>>)

\* The remote branch of the resolution.
resolveRemote(cfg) ==
    LET parts == Split(cfg.remoteBranch, "/")
        remote == parts[1]
        branch == Join(Tail(parts), "/")
    IN  IF Len(parts) < 2
        THEN Thrown("remote")
        ELSE Prepared("remote", branch, <<>>, remote \o <<"/">> \o branch)

\* The branch of the resolution that takes the configured name or makes one.
resolveTarget(cfg) ==
    Prepared("target",
             IF Given(cfg.targetBranch) THEN cfg.targetBranch
             ELSE <<"c", "l", "a", "u", "d", "e", "/">> \o cfg.today \o <<"-">> \o cfg.now,
             <<>>, <<>>)

\* The resolution with the two fetch modes not excluding each other.
resolveBranchBoth(cfg) ==
    IF Given(cfg.prNumber) /\ Given(cfg.remoteBranch)
           /\ resolvePr(cfg).state = "prepared" /\ resolveRemote(cfg).state = "prepared"
    THEN [resolveRemote(cfg) EXCEPT !.prFetchRef = resolvePr(cfg).prFetchRef]
    ELSE IF Given(cfg.prNumber) THEN resolvePr(cfg)
    ELSE IF Given(cfg.remoteBranch) THEN resolveRemote(cfg)
    ELSE resolveTarget(cfg)

\* run, from its first use of the options to the call of prepareContainer.
resolveBranch(cfg) ==
    IF Given(cfg.prNumber) THEN resolvePr(cfg)
    ELSE IF Given(cfg.remoteBranch) THEN resolveRemote(cfg)
    ELSE resolveTarget(cfg)

PrNumbers == {Undefined, <<>>, <<"7">>, <<"0">>}

RemoteBranches ==
    {Undefined, <<>>, <<"o", "/", "b">>, <<"b">>, <<"o", "/", "a", "/", "b">>, <<"o", "/">>, <<"/", "b">>, <<"/">>}

TargetBranches == {Undefined, <<>>, <<"w">>}

Configs ==
    [prNumber : PrNumbers, remoteBranch : RemoteBranches, targetBranch : TargetBranches,
     gh : GhResults, today : {<<"2", "0", "2", "5">>}, now : {<<"1">>, <<"2">>}]

\* gh is run only for a PR number.
InitBranch ==
    /\ config \in {c \in Configs : Given(c.prNumber) \/ c.gh = "headRefName"}
    /\ containerConfig = NotPrepared
    /\ proc = NotStarted
    /\ isTTY = TRUE
    /\ sandbox = NoSandbox
    /\ rawMode = FALSE
    /\ tasks = NoTasks
    /\ calls = NoCalls
    /\ files = NoFiles
    /\ lastOp = NoOp
    /\ replaced = NoArg
    /\ added = <<>>
    /\ loaded = NotLoaded
    /\ InitWriters
    /\ InitNoRecovery

\* run resolves the branch.
ResolveBranch ==
    /\ containerConfig = NotPrepared
    /\ containerConfig' = resolveBranch(config)
    /\ UNCHANGED <<config, files, storeHist, loaded, writeVars, recVars, orchVars>>

SpecBranch == InitBranch /\ [][ResolveBranch]_vars

\* The mode the priority of the options names.
ModeByPriority(cfg) ==
    IF Given(cfg.prNumber) THEN "pr" ELSE IF Given(cfg.remoteBranch) THEN "remote" ELSE "target"

\* C26: for every combination of the options prNumber, remoteBranch and
\* targetBranch, branch resolution takes exactly one mode, by the priority PR
\* number, remote branch, configured or synthesized name, and hands container
\* start-up at most one non-empty fetch reference: the PR fetch ref and the
\* remote fetch ref are never both non-empty, and in the third mode both are
\* empty.
C26_OneFetchRef ==
    /\ containerConfig.state # "none" => containerConfig.mode = ModeByPriority(config)
    /\ containerConfig.state = "prepared" =>
        /\ ~(containerConfig.prFetchRef # <<>> /\ containerConfig.remoteFetchRef # <<>>)
        /\ containerConfig.mode = "pr" => containerConfig.remoteFetchRef = <<>>
        /\ containerConfig.mode = "remote" => containerConfig.prFetchRef = <<>>
        /\ containerConfig.mode = "target" =>
              containerConfig.prFetchRef = <<>> /\ containerConfig.remoteFetchRef = <<>>

\* A PR number and a remote branch are both given and a PR fetch ref is handed on.
C26_Witness ==
    /\ Given(config.prNumber)
    /\ Given(config.remoteBranch)
    /\ Given(config.targetBranch)
    /\ containerConfig.state = "prepared"
    /\ containerConfig.prFetchRef # <<>>

\* The terminal attachment and its two teardown listeners alone, with no
\* commit reported.
NextTeardown ==
    \/ SandboxRun
    \/ LaunchWebUI
    \/ AttachToContainer
    \/ StreamEnd
    \/ \E k \in 1..MaxSigints : Sigint(k)
    \/ SigintDefault
    \/ \E t \in TaskIds : TeardownResumes(t)

SpecTeardown == InitAttach /\ [][NextTeardown]_vars

\* The teardown the two triggers share, to the end of the process.
Teardown(tty, webServer) ==
    <<"resize.off">> \o (IF tty THEN <<"setRawMode(false)">> ELSE <<>>)
        \o <<"gitMonitor.stop", "containerManager.cleanup">>
        \o (IF webServer THEN <<"webServer.stop">> ELSE <<>>)
        \o <<"process.exit(0)">>

NotPause(step) == step # "stdin.pause"

\* C27: on both teardown triggers of the terminal attachment the same steps run
\* in the same order, unsubscribe the resize handler, restore local input mode,
\* run the cleanup sequence, and the process terminates with status 0 only
\* after the cleanup sequence has completed.
C27_SameTeardown ==
    /\ \A t \in TeardownRuns :
          /\ IsPrefix(SelectSeq(tasks[t].steps, NotPause), Teardown(isTTY, sandbox.webServer))
          /\ tasks[t].at = "exited" =>
                SelectSeq(tasks[t].steps, NotPause) = Teardown(isTTY, sandbox.webServer)
    /\ proc = Exited("0") => \E t \in TeardownRuns : tasks[t].at = "exited"

\* The interrupt listener ended the process while the stream end listener was
\* still in its cleanup.
C27_Witness ==
    /\ proc = Exited("0")
    /\ tasks[<<"sigint", 1>>].at = "exited"
    /\ tasks[<<"end", 1>>].at \in CleanupAwaits

\* The step is a run of the push action for a shadow repo whose remote is origin.
PushWithOrigin ==
    /\ rec'.n # rec.n
    /\ rec'.choice = "push"
    /\ shadows[Get(rec'.session.session, "shadowRepoPath")].remote = "origin"

\* The push step of the run succeeded: the branch is on the remote and the
\* run said so.
PushSucceeded ==
    /\ "Pushed branch" \in Range(rec'.report)
    /\ shadows'[Get(rec'.session.session, "shadowRepoPath")].pushed

\* The steps of a push run in the order stage, commit, determine the branch,
\* push, and a failing commit does not stop the later ones.
PushInOrder ==
    /\ IsPrefix(rec'.effects, <<"prompt.action">> \o ChoiceSteps("push"))
    /\ "git.commit" \in Range(rec'.effects) => "git.branch" \in Range(rec'.effects)

\* C28 as stated: in the push action with origin configured the steps run in
\* the order stage, commit, determine branch, push; a failing commit step does
\* not stop the later steps; and the session record is removed if and only if
\* the push step succeeded, never before it.
C28_RemovedIffPushed ==
    [][PushWithOrigin =>
        /\ PushInOrder
        /\ ~Recorded(files', Get(rec'.session.session, "containerId"))
              <=> PushSucceeded
        /\ ~PushSucceeded => files' = files]_vars

\* C28 as amended: the same order; the record's removal is attempted if and
\* only if the push step succeeded and never before it; the record is gone
\* only if the push succeeded, and is gone whenever the push succeeded and the
\* store write of the removal did not fail.
C28_RemovedOnlyAfterPush ==
    [][PushWithOrigin =>
        /\ PushInOrder
        /\ "store.removeSession" \in Range(rec'.effects)
              <=> PushSucceeded
        /\ ~Recorded(files', Get(rec'.session.session, "containerId"))
              => PushSucceeded
        /\ PushSucceeded /\ ~rec'.storeFailed
              => ~Recorded(files', Get(rec'.session.session, "containerId"))
        /\ ~PushSucceeded => files' = files]_vars

\* A push whose commit step failed went on to push and removed the record.
C28_Witness ==
    /\ rec.choice = "push"
    /\ shadows[Get(rec.session.session, "shadowRepoPath")].remote = "origin"
    /\ shadows[Get(rec.session.session, "shadowRepoPath")].tree = "staged"
    /\ shadows[Get(rec.session.session, "shadowRepoPath")].pushed
    /\ ~Recorded(files, Get(rec.session.session, "containerId"))

\* C29: in the copy action the session record is removed only after the copy of
\* the shadow repo tree to the chosen destination has completed successfully,
\* and the shadow repo directory at its original path still exists, unmodified,
\* when the action ends.
C29_CopyThenRetire ==
    [][rec'.n # rec.n /\ rec'.choice = "copy" =>
        /\ "store.removeSession" \in Range(rec'.effects) =>
              /\ copies'[Get(rec'.session.session, "shadowRepoPath")] = "complete"
              /\ 0 < StepAt(rec'.effects, "fs.copy")
              /\ StepAt(rec'.effects, "fs.copy") < StepAt(rec'.effects, "store.removeSession")
        /\ files' # files => "store.removeSession" \in Range(rec'.effects)
        /\ shadows[Get(rec'.session.session, "shadowRepoPath")].exists
        /\ shadows' = shadows]_vars

\* A copy completed and retired the record; the shadow repo is where it was.
C29_Witness ==
    /\ rec.choice = "copy"
    /\ copies[Get(rec.session.session, "shadowRepoPath")] = "complete"
    /\ ~Recorded(files, Get(rec.session.session, "containerId"))
    /\ shadows[Get(rec.session.session, "shadowRepoPath")].exists

\* C30: getRecoverableSessions is a pure read with respect to durable state:
\* for any store content and any container and shadow state, a run of the
\* recover command that ends after the scan (nothing recoverable, or --list)
\* leaves the store file, the containers and the shadow repo directories
\* unchanged.
C30_ScanIsPureRead ==
    [][rec'.n # rec.n /\ rec'.cmd = "recover" /\ rec'.session = NoSession =>
        /\ files' = files
        /\ containers' = containers
        /\ shadows' = shadows]_vars

\* The recover command listed the recoverable sessions of a store that also
\* holds a record that is not recoverable.
C30_Witness ==
    /\ rec.cmd = "recover"
    /\ rec.session = NoSession
    /\ Len(rec.scanned) > 0
    /\ Len(Sessions(files)) > Len(rec.scanned)

(***************************************************************************)
(* C31: what a successful clean --shadows leaves.                          *)
(***************************************************************************)
\* A step of the clean command given --shadows that returned.
CleanedShadows ==
    /\ rec'.n = rec.n + 1
    /\ rec'.cmd = "clean"
    /\ "shadows" \in rec'.flags
    /\ rec'.result = "returned"

\* C31: after the clean command with --shadows completes successfully, every
\* record left in the store names a container that still existed when it was
\* inspected, every entry left under the shadow base path is named by the
\* sessionId of a record left in the store, and no shadow directory that
\* belongs to a record left in the store was removed.
C31_CleanKeepsWhatIsRecorded ==
    [][CleanedShadows =>
        /\ \A i \in 1..Len(Sessions(files')) :
              /\ containers'[Get(Sessions(files')[i], "containerId")] # "gone"
              /\ shadows'[Get(Sessions(files')[i], "shadowRepoPath")]
                    = shadows[Get(Sessions(files')[i], "shadowRepoPath")]
        /\ \A p \in ShadowPaths :
              shadows'[p].exists =>
                  \E i \in 1..Len(Sessions(files')) :
                      Get(Sessions(files')[i], "sessionId") = ShadowEntry(p)]_vars

\* A clean --shadows that removed a shadow repo no record names and left a
\* record whose shadow repo is still there.
C31_Witness ==
    /\ rec.cmd = "clean"
    /\ "shadows" \in rec.flags
    /\ rec.result = "returned"
    /\ "shadow repo(s)" \in {rec.report[i] : i \in 1..Len(rec.report)}
    /\ \E i \in 1..Len(Sessions(files)) :
          /\ shadows[Get(Sessions(files)[i], "shadowRepoPath")].exists
          /\ containers[Get(Sessions(files)[i], "containerId")] # "gone"

(***************************************************************************)
(* C32: purge changes the store and the shadow repos only once confirmed.  *)
(***************************************************************************)
\* A step of the purge command.
Purged == rec'.n = rec.n + 1 /\ rec'.cmd = "purge"

\* getClaudeSandboxContainers() found no container, before the step.
NoneFound == \A id \in Ids : containers[id] = "gone"

\* The purge went past the confirmation: -y was given or the operator agreed.
Confirmed == ~NoneFound /\ ("yes" \in rec'.flags \/ rec'.confirm)

\* The purge ended at the check for containers or at the operator's refusal.
NotConfirmed == NoneFound \/ ("yes" \notin rec'.flags /\ ~rec'.confirm)

\* After the step the store holds an empty list and no shadow repo is left.
AllCleared ==
    /\ files'[storePath] = File(Stringify(<<>>))
    /\ \A p \in ShadowPaths : ~shadows'[p].exists

\* The statement as written: when the operator declines or no container is
\* found the store and the shadow repos are unchanged, and once confirmed the
\* store is emptied and every shadow repo removed.
C32_ConfirmedPurgeClearsAll ==
    [][Purged =>
        /\ NotConfirmed => files' = files /\ shadows' = shadows
        /\ Confirmed => AllCleared]_vars

\* C32: the purge command changes durable state only after confirmation (or
\* -y): when the operator declines, or when no sandbox container is found,
\* the store, the shadow repos and the containers are unchanged; once
\* confirmed, a purge that returns has emptied the store and removed every
\* shadow repo even if stopping or removing some of the containers failed,
\* and a purge that does not return exits with code 1, after a failed store
\* write with the records and the shadow repos as they were, after a failed
\* removal of the shadow base path with the store emptied.
C32_PurgeOnlyOnceConfirmed ==
    [][Purged =>
        /\ NotConfirmed =>
              /\ files' = files /\ shadows' = shadows /\ containers' = containers
              /\ rec'.result = "returned"
        /\ Confirmed /\ rec'.result = "returned" => AllCleared
        /\ Confirmed /\ rec'.result = "raised" =>
              /\ rec'.exit = "exit 1"
              /\ IF rec'.storeFailed
                 THEN files'[storePath] = files[storePath] /\ shadows' = shadows
                 ELSE files'[storePath] = File(Stringify(<<>>))]_vars

\* A confirmed purge that failed to remove a container and still emptied the
\* store and removed the shadow repos.
C32_Witness ==
    /\ rec.cmd = "purge"
    /\ rec.result = "returned"
    /\ "yes" \in rec.flags \/ rec.confirm
    /\ "Failed to remove" \in {rec.report[i] : i \in 1..Len(rec.report)}
    /\ \E id \in Ids : containers[id] # "gone"
    /\ files[storePath] = File(Stringify(<<>>))
    /\ \A p \in ShadowPaths : ~shadows[p].exists

====
